---- MODULE Spec2Model ----
(***************************************************************************)
(* Model of the Ant MCP client: the Toolbox (ToolStore), its connection    *)
(* pool (an LRUCache of MCP clients with max, ttl and a dispose hook) and  *)
(* the agent loop (AntClient.processQuery).                                *)
(*                                                                         *)
(* Asynchronous methods are cut at their awaits: one action per stretch of *)
(* synchronous code.  A call in flight is a record of `calls`.             *)
(***************************************************************************)
EXTENDS Integers, Sequences, FiniteSets, TLC

(***************************************************************************)
(* Bounds of the model and program constants.                              *)
(***************************************************************************)
\* ToolStore constructor parameter maxConnections (default 10), kept small.
maxConnections == 2
\* Clients the connector may create in one run.
MaxClients == 3
\* ToolStore calls that may be in flight at once.
MaxCalls == 2
\* Calls made on the ToolStore from outside the loop in one run.
MaxOps == 4
\* Servers main registers at start-up.
MaxStartup == 1
\* Blocks the Agent emits in one turn, over all its answers.
MaxAgentBlocks == 2
MaxTurnBlocks == 3

\* The servers: ConnectionOptions {url, type}.
Servers == {[url |-> "u1", type |-> "sse"], [url |-> "u1", type |-> "stdio"],
            [url |-> "u2", type |-> "sse"]}
\* Names the upstream servers advertise; one collides with a registry tool.
ToolNames == {"weather", "query-tools"}
\* What a server's listTools() may answer.
AdvertisedLists == {<<"weather">>, <<"weather", "query-tools">>}
ToolUseIds == {"t1", "t2"}

Clients == 1..MaxClients
NoClient == 0
\* Call 0 is the executeTool that processQuery awaits; the others are calls
\* made on the ToolStore from outside the loop.
LoopCall == 0
CallIds == 0..MaxCalls

\* The registry's own tools, as RegistryClient.refreshToolsList stores them.
registryTools ==
    <<"query-tools", "add-tool", "add-server", "list-tools", "delete-tool">>

\* RegistryClient.Tools(): the set of names of registryTools.
Tools == {registryTools[i] : i \in 1..Len(registryTools)}

\* The registry's catalogue of tools with their origin, as query-tools
\* returns them (any sub-list of it).
QueryResults ==
    { <<>>, <<[name |-> "weather", url |-> "u2", type |-> "sse"]>> }

VARIABLES
    availableTools,   \* ToolStore.availableTools: Map name -> tool, in insertion order
    toolServerInfo,   \* ToolStore.toolServerInfo: Map name -> server info
    clientCache,      \* ToolStore.clientCache: most recently used first
    clientState,      \* per client: "none", "open", "closing", "closed"
    disposals,        \* per client: how often the dispose hook ran on it
    disposeReason,    \* per client: why it left the cache
    recency,          \* the pooled clients, from the least to the most recently used
    calls,            \* ToolStore calls in flight
    last,             \* the call that completed last, with what it saw
    ops,              \* calls made on the ToolStore from outside the loop
    pc,               \* where processQuery stands: "idle", "chat", "walk", "tool", "returned"
    recursionDepth,   \* processQuery's recursionDepth
    messages,         \* processQuery's messages
    processedMessages,\* the content of processQuery's scratch assistant message
    newMessages,      \* the blocks of the Agent's answer still to walk
    chats,            \* Agent.chat calls of this turn
    budget,           \* blocks the Agent may still emit in this turn
    chatTools,        \* the tools handed to the last Agent.chat call
    tools,            \* inMemoryRegistry.tools: Map name -> {tool, server}, in insertion order
    servers,          \* inMemoryRegistry.servers: the ids of the Map's servers
    stores,           \* the MemoryVectorStore objects made so far, each its documents
    vectorStore,      \* inMemoryRegistry.vectorStore: the store in use
    regCalls,         \* inMemoryRegistry calls in flight
    regLast,          \* the registry call that completed last, with its result
    regOps,           \* registry calls made so far
    deletedSince,     \* names whose deleteTool returned true, not added since
    addServerCall,    \* inMemoryRegistry.addServer: where the call stands
    wire,             \* the vendor message parsed or emitted last
    parsed,           \* the Message that fromAnthropicMessage built last
    msgOp,            \* what the adapter did last: "none", "parsed", "threw", "emitted"
    dynamoTable,      \* REGISTRY_STORE: per tool id the revision stored, 0 for none
    redisKeys,        \* the Redis keys: per tool id the revision stored, 0 for none
    getLast           \* the getToolsById call that completed last, with its result

toolVars == <<availableTools, toolServerInfo>>
poolVars == <<clientCache, clientState, disposals, disposeReason, recency>>
loopVars == <<pc, recursionDepth, messages, processedMessages, newMessages, chats, budget, chatTools>>
regVars == <<tools, servers, stores, vectorStore, regCalls, regLast, regOps, deletedSince,
            addServerCall>>
msgVars == <<wire, parsed, msgOp>>
storerVars == <<dynamoTable, redisKeys, getLast>>
vars == <<availableTools, toolServerInfo, clientCache, clientState, disposals,
          disposeReason, recency, calls, last, ops, pc, recursionDepth, messages,
          processedMessages, newMessages, chats, budget, chatTools,
          tools, servers, stores, vectorStore, regCalls, regLast, regOps, deletedSince,
          addServerCall, wire, parsed, msgOp, dynamoTable, redisKeys, getLast>>

(***************************************************************************)
(* The LRU cache (lru-cache, as ToolStore's constructor configures it).    *)
(***************************************************************************)
cacheKey(url, type) == <<url, type>>

\* An entry is stale once the clock has passed its start by more than the ttl
\* (30 minutes); `expired` is that fact about the entry.
isStale(e) == e.expired

IndexOfKey(cache, k) ==
    IF \E i \in 1..Len(cache) : cache[i].key = k
    THEN CHOOSE i \in 1..Len(cache) : cache[i].key = k
    ELSE 0

RemoveAt(cache, i) == SubSeq(cache, 1, i - 1) \o SubSeq(cache, i + 1, Len(cache))

\* A get that leaves the order of the entries alone: a lookup is no use.
LruGet_noTouch(cache, k) ==
    LET i == IndexOfKey(cache, k) IN
    IF i = 0
    THEN [value |-> NoClient, cache |-> cache, disposed |-> {}]
    ELSE IF isStale(cache[i])
    THEN [value |-> NoClient, cache |-> RemoveAt(cache, i),
          disposed |-> {[client |-> cache[i].client, reason |-> "expire"]}]
    ELSE [value |-> cache[i].client, cache |-> cache, disposed |-> {}]

\* A get that does not look at the age of an entry.
LruGet_allowStale(cache, k) ==
    LET i == IndexOfKey(cache, k) IN
    IF i = 0
    THEN [value |-> NoClient, cache |-> cache, disposed |-> {}]
    ELSE [value |-> cache[i].client, cache |-> <<cache[i]>> \o RemoveAt(cache, i),
          disposed |-> {}]

\* clientCache.get(k): a stale entry is deleted (and disposed) and reads as
\* absent; a live one becomes the most recently used.
LruGet(cache, k) ==
    LET i == IndexOfKey(cache, k) IN
    IF i = 0
    THEN [value |-> NoClient, cache |-> cache, disposed |-> {}]
    ELSE IF isStale(cache[i])
    THEN [value |-> NoClient, cache |-> RemoveAt(cache, i),
          disposed |-> {[client |-> cache[i].client, reason |-> "expire"]}]
    ELSE [value |-> cache[i].client, cache |-> <<cache[i]>> \o RemoveAt(cache, i),
          disposed |-> {}]

\* A set that makes room for nothing: the cache grows past its max.
LruSet_noEvict(cache, k, c) ==
    LET i == IndexOfKey(cache, k)
        e == [key |-> k, client |-> c, expired |-> FALSE] IN
    IF i # 0
    THEN [cache |-> <<e>> \o RemoveAt(cache, i),
          disposed |-> IF cache[i].client # c
                       THEN {[client |-> cache[i].client, reason |-> "set"]}
                       ELSE {}]
    ELSE [cache |-> <<e>> \o cache, disposed |-> {}]

\* A set that drops a replaced value without disposing of it.
LruSet_noDisposeOnReplace(cache, k, c) ==
    LET i == IndexOfKey(cache, k)
        e == [key |-> k, client |-> c, expired |-> FALSE] IN
    IF i # 0
    THEN [cache |-> <<e>> \o RemoveAt(cache, i), disposed |-> {}]
    ELSE IF Len(cache) >= maxConnections
    THEN [cache |-> <<e>> \o RemoveAt(cache, Len(cache)),
          disposed |-> {[client |-> cache[Len(cache)].client, reason |-> "evict"]}]
    ELSE [cache |-> <<e>> \o cache, disposed |-> {}]

\* clientCache.set(k, c): an entry of the same key is replaced (its old value
\* disposed); a new key in a full cache evicts the least recently used entry.
LruSet(cache, k, c) ==
    LET i == IndexOfKey(cache, k)
        e == [key |-> k, client |-> c, expired |-> FALSE] IN
    IF i # 0
    THEN [cache |-> <<e>> \o RemoveAt(cache, i),
          disposed |-> IF cache[i].client # c
                       THEN {[client |-> cache[i].client, reason |-> "set"]}
                       ELSE {}]
    ELSE IF Len(cache) >= maxConnections
    THEN [cache |-> <<e>> \o RemoveAt(cache, Len(cache)),
          disposed |-> {[client |-> cache[Len(cache)].client, reason |-> "evict"]}]
    ELSE [cache |-> <<e>> \o cache, disposed |-> {}]

\* clientCache.clear(): every entry is disposed.
LruClear(cache) ==
    [cache |-> <<>>,
     disposed |-> {[client |-> cache[i].client, reason |-> "delete"] : i \in 1..Len(cache)}]

CachedClients == {clientCache[i].client : i \in 1..Len(clientCache)}

\* A dispose hook that forgets to close the client.
dispose_noClose(states, d) == states

\* The dispose hook: it calls value.close() and does not wait for anyone.
dispose(states, d) ==
    [c \in Clients |-> IF c \in {x.client : x \in d} THEN "closing" ELSE states[c]]

\* The bookkeeping of a cache operation that disposed the entries d.
Disposed(d) ==
    /\ disposals' = [c \in Clients |->
           disposals[c] + Cardinality({x \in d : x.client = c})]
    /\ disposeReason' = [c \in Clients |->
           IF \E x \in d : x.client = c
           THEN (CHOOSE x \in d : x.client = c).reason
           ELSE disposeReason[c]]

\* The use a cache operation makes of the clients: those in d have left the
\* pool, and c (a client that get found or set stored) is the one used last.
Used(d, c) ==
    recency' = SelectSeq(recency, LAMBDA x : x # c /\ \A y \in d : y.client # x)
                   \o (IF c = NoClient THEN <<>> ELSE <<c>>)

(***************************************************************************)
(* The Toolbox's two maps.                                                 *)
(***************************************************************************)
NamesOf(list) == {list[i].name : i \in 1..Len(list)}

\* Map.set on availableTools: an existing name keeps its place.
ToolsSet(list, name, desc) ==
    IF name \in NamesOf(list)
    THEN [i \in 1..Len(list) |->
             IF list[i].name = name THEN [name |-> name, desc |-> desc] ELSE list[i]]
    ELSE Append(list, [name |-> name, desc |-> desc])

\* toolServerInfo is a function on ToolNames; NoInfo stands for an absent key.
NoInfo == [serverUrl |-> "", serverType |-> ""]

InfoHas(info, name) == name \in ToolNames /\ info[name] # NoInfo

InfoNames(info) == {n \in ToolNames : info[n] # NoInfo}

\* A set on toolServerInfo that stores nothing.
InfoSet_forgets(info, name, url, type) == info

\* Map.set on toolServerInfo.
InfoSet(info, name, url, type) ==
    [info EXCEPT ![name] = [serverUrl |-> url, serverType |-> type]]

\* getAvailableTools(): the local tools, then the registry's.
getAvailableTools == [i \in 1..Len(availableTools) |-> availableTools[i].name] \o registryTools

\* The names among newTools that connectToServer reports as conflicts: those
\* registered with another server url.
conflicts(newTools, info, url) ==
    {newTools[i] : i \in {j \in 1..Len(newTools) :
        /\ InfoHas(info, newTools[j])
        /\ info[newTools[j]].serverUrl # url}}

\* The registration loop of connectToServer over newTools.
RECURSIVE installTools(_, _, _, _)
installTools(box, newTools, url, type) ==
    IF newTools = <<>> THEN box
    ELSE installTools(
            [tools |-> ToolsSet(box.tools, Head(newTools), url),
             info |-> InfoSet(box.info, Head(newTools), url, type)],
            Tail(newTools), url, type)

\* registerTools(toolsWithServerInfo): the loop over the given origins.
RECURSIVE registerToolsInto(_, _)
registerToolsInto(box, origins) ==
    IF origins = <<>> THEN box
    ELSE LET o == Head(origins) IN
         registerToolsInto(
            [tools |-> ToolsSet(box.tools, o.name, o.url),
             info |-> InfoSet(box.info, o.name, o.url, o.type)],
            Tail(origins))

Toolbox == [tools |-> availableTools, info |-> toolServerInfo]

(***************************************************************************)
(* Messages and content blocks.                                            *)
(***************************************************************************)
MAX_RECURSION_DEPTH == 10

Block(type, id, name, text, isError, userFacing) ==
    [type |-> type, id |-> id, name |-> name, text |-> text,
     isError |-> isError, userFacing |-> userFacing]

TextBlock(text, userFacing) == Block("TEXT", "", "", text, FALSE, userFacing)
ToolUseBlock(id, name) == Block("TOOL_USE", id, name, "", FALSE, TRUE)
\* ToolResultBlock: id is its toolUseId, text its one TextBlock.
ToolResultBlock(toolUseId, text, isError) ==
    Block("TOOL_RESULT", toolUseId, "", text, isError, FALSE)
ThinkingBlock == Block("THINKING", "", "", "thinking", FALSE, FALSE)
UserInputBlock == Block("NEED_USER_INPUT", "", "", "request", FALSE, TRUE)
FinalResponseBlock == Block("FINAL_RESPONSE", "", "", "response", FALSE, TRUE)
ExceptionBlock(message) == Block("EXCEPTION", "", "", message, FALSE, TRUE)

Message(role, content) == [role |-> role, content |-> content]

\* The text processQuery builds when the depth cap is reached.
depthMessage == "Maximum re-evaluation depth reached"

(***************************************************************************)
(* Calls in flight and the record of the last completed call.              *)
(***************************************************************************)
IdleCall == [op |-> "none", pc |-> "idle", url |-> "", type |-> "", name |-> "",
             id |-> "", client |-> NoClient]

\* `response` is what the registry answered to a query-tools call.
NoLast == [op |-> "none", outcome |-> "none", url |-> "", type |-> "",
           advertised |-> <<>>, errNames |-> {}, cleared |-> {}, response |-> <<>>]

\* The lowest free slot for a call made from outside the loop.
FreeCall(i) ==
    /\ ops < MaxOps
    /\ i # LoopCall
    /\ calls[i].op = "none"
    /\ \A j \in CallIds : (j # LoopCall /\ j < i) => calls[j].op # "none"

\* The client the connector creates next.
FreshClient(c) ==
    /\ clientState[c] = "none"
    /\ \A d \in Clients : d < c => clientState[d] # "none"

\* A continuation that puts the result into the conversation without first
\* flushing the scratch message that holds the tool use.
Deliver_noFlush(i, outcome, id, text, isError) ==
    IF i = LoopCall
    THEN /\ pc' = "walk"
         /\ IF outcome = "ok"
            THEN /\ messages' = Append(messages,
                        Message("user", <<ToolResultBlock(id, text, isError)>>))
                 /\ UNCHANGED processedMessages
            ELSE /\ processedMessages' = Append(processedMessages, ExceptionBlock(text))
                 /\ UNCHANGED messages
         /\ UNCHANGED <<recursionDepth, newMessages, chats, budget, chatTools>>
    ELSE UNCHANGED loopVars

\* processQuery's continuation after `await this.toolStore.executeTool(...)`:
\* the result goes into a user message behind the flushed scratch message; an
\* error goes into the scratch message as an Exception block.
Deliver(i, outcome, id, text, isError) ==
    IF i = LoopCall
    THEN /\ pc' = "walk"
         /\ IF outcome = "ok"
            THEN /\ messages' = messages \o
                        <<Message("assistant", processedMessages),
                          Message("user", <<ToolResultBlock(id, text, isError)>>)>>
                 /\ processedMessages' = <<>>
            ELSE /\ processedMessages' = Append(processedMessages, ExceptionBlock(text))
                 /\ UNCHANGED messages
         /\ UNCHANGED <<recursionDepth, newMessages, chats, budget, chatTools>>
    ELSE UNCHANGED loopVars

\* A call ends: its slot is freed and `last` tells what it did.
Finish(i, rec) ==
    /\ calls' = [calls EXCEPT ![i] = IdleCall]
    /\ last' = rec

(***************************************************************************)
(* ToolStore.connectToServer                                               *)
(***************************************************************************)
\* Up to the first await: the cache is asked for a client.
connectToServer(i, url, type) ==
    /\ FreeCall(i)
    /\ LET g == LruGet(clientCache, cacheKey(url, type)) IN
       /\ clientCache' = g.cache
       /\ clientState' = dispose(clientState, g.disposed)
       /\ Disposed(g.disposed)
       /\ Used(g.disposed, g.value)
       /\ calls' = [calls EXCEPT ![i] =
              [op |-> "connectToServer",
               pc |-> IF g.value = NoClient THEN "connecting" ELSE "listing",
               url |-> url, type |-> type, name |-> "", id |-> "",
               client |-> g.value]]
    /\ ops' = ops + 1
    /\ UNCHANGED <<toolVars, last, loopVars>>
    /\ UNCHANGED <<regVars, msgVars, storerVars>>

\* A connection that is opened and never put into the cache.
Connected_noSet(i, c, nextpc) ==
    /\ clientState' = [clientState EXCEPT ![c] = "open"]
    /\ calls' = [calls EXCEPT ![i].pc = nextpc, ![i].client = c]
    /\ UNCHANGED <<clientCache, disposals, disposeReason, recency>>

\* `client = await this.connector.connect(opts); this.clientCache.set(cacheKey, client)`
Connected(i, c, nextpc) ==
    LET s == LruSet(clientCache, cacheKey(calls[i].url, calls[i].type), c) IN
    /\ clientCache' = s.cache
    /\ clientState' = [dispose(clientState, s.disposed) EXCEPT ![c] = "open"]
    /\ Disposed(s.disposed)
    /\ Used(s.disposed, c)
    /\ calls' = [calls EXCEPT ![i].pc = nextpc, ![i].client = c]

connectToServer_connected(i) ==
    /\ calls[i].op = "connectToServer"
    /\ calls[i].pc = "connecting"
    /\ \E c \in Clients : FreshClient(c) /\ Connected(i, c, "listing")
    /\ UNCHANGED <<toolVars, last, ops, loopVars>>
    /\ UNCHANGED <<regVars, msgVars, storerVars>>

\* A failure that is swallowed: the call ends as if it had succeeded.
connectToServer_fails_silent(i) ==
    /\ calls[i].op = "connectToServer"
    /\ calls[i].pc \in {"connecting", "listing"}
    /\ Finish(i, [NoLast EXCEPT !.op = "connectToServer", !.outcome = "ok",
                     !.url = calls[i].url, !.type = calls[i].type])
    /\ UNCHANGED <<toolVars, poolVars, ops, loopVars>>
    /\ UNCHANGED <<regVars, msgVars, storerVars>>

\* The connector or listTools() rejects: the catch logs and rethrows.
connectToServer_fails(i) ==
    /\ calls[i].op = "connectToServer"
    /\ calls[i].pc \in {"connecting", "listing"}
    /\ Finish(i, [NoLast EXCEPT !.op = "connectToServer", !.outcome = "error",
                     !.url = calls[i].url, !.type = calls[i].type])
    /\ UNCHANGED <<toolVars, poolVars, ops, loopVars>>
    /\ UNCHANGED <<regVars, msgVars, storerVars>>

\* listTools() answers newTools: the conflict check, then the registration.
connectToServer_listed(i, newTools) ==
    /\ calls[i].op = "connectToServer"
    /\ calls[i].pc = "listing"
    /\ LET url == calls[i].url
           type == calls[i].type
           cf == conflicts(newTools, toolServerInfo, url)
           box == IF cf # {} THEN Toolbox ELSE installTools(Toolbox, newTools, url, type)
       IN /\ availableTools' = box.tools
          /\ toolServerInfo' = box.info
          /\ Finish(i, [NoLast EXCEPT !.op = "connectToServer",
                           !.outcome = IF cf # {} THEN "error" ELSE "ok",
                           !.url = url, !.type = type,
                           !.advertised = newTools, !.errNames = cf])
    /\ UNCHANGED <<poolVars, ops, loopVars>>
    /\ UNCHANGED <<regVars, msgVars, storerVars>>

(***************************************************************************)
(* ToolStore.registerTools and ToolStore.cleanup                           *)
(***************************************************************************)
registerTools(origins) ==
    /\ ops < MaxOps
    /\ ops' = ops + 1
    /\ LET box == registerToolsInto(Toolbox, origins) IN
          /\ availableTools' = box.tools
          /\ toolServerInfo' = box.info
          /\ last' = [NoLast EXCEPT !.op = "registerTools", !.outcome = "ok",
                         !.advertised = origins]
    /\ UNCHANGED <<poolVars, calls, loopVars>>
    /\ UNCHANGED <<regVars, msgVars, storerVars>>

\* cleanup() clears the cache and resolves.
clear ==
    /\ LET r == LruClear(clientCache) IN
          /\ clientCache' = r.cache
          /\ clientState' = dispose(clientState, r.disposed)
          /\ Disposed(r.disposed)
          /\ Used(r.disposed, NoClient)
          /\ last' = [NoLast EXCEPT !.op = "cleanup", !.outcome = "ok",
                         !.cleared = {x.client : x \in r.disposed}]
    /\ UNCHANGED <<toolVars, calls>>

cleanup ==
    /\ ops < MaxOps
    /\ ops' = ops + 1
    /\ clear
    /\ UNCHANGED loopVars
    /\ UNCHANGED <<regVars, msgVars, storerVars>>

(***************************************************************************)
(* The Registry Service's meta-tool handlers and RegistryClient's reading  *)
(* of their responses                                                      *)
(***************************************************************************)
\* The text of a content item: a JSON document (null or an array of items)
\* or words for a human.
JSONstringify(value) == [kind |-> value.kind, items |-> value.items, words |-> ""]
JsonNull == [kind |-> "null", items |-> <<>>]
JsonArray(items) == [kind |-> "array", items |-> items]
Words(text) == [kind |-> "words", items |-> <<>>, words |-> text]

\* A content item {type: "text", text, isJson}; an item written without
\* isJson has none, which is FALSE in every test of it.
McpText(text, isJson) == [type |-> "text", text |-> text, isJson |-> isJson]

\* serializableTools: {tool, server: {url, type, authToken}} per result.
serializableTools(found) ==
    [i \in 1..Len(found) |->
        [name |-> found[i].name, url |-> found[i].server.url,
         type |-> found[i].server.type]]

\* The query-tools handler: the content it answers with when
\* registry.queryTools returned `found`, and when it threw.
queryToolsHandler(outcome, found) ==
    IF outcome = "ok"
    THEN << McpText(JSONstringify(JsonArray(serializableTools(found))), TRUE) >>
    ELSE << McpText(JSONstringify(JsonNull), TRUE),
            McpText(Words("Error querying tools"), FALSE) >>

\* The list-tools handler: the tools of the map, then how many there are.
listToolsHandler(outcome, listed) ==
    IF outcome = "ok"
    THEN << McpText(JSONstringify(JsonArray(
                        [i \in 1..Len(listed) |-> [name |-> listed[i].name]])), TRUE),
            McpText(Words(IF Len(listed) > 0 THEN "Found tools"
                          ELSE "No tools found in the registry."), FALSE) >>
    ELSE << McpText(JSONstringify(JsonNull), TRUE),
            McpText(Words("Error listing tools"), FALSE) >>

\* What the registry found for a query, as registry.queryTools returns it.
RegistryFound ==
    {[k \in 1..Len(q) |->
         [name |-> q[k].name, server |-> [url |-> q[k].url, type |-> q[k].type]]]
        : q \in QueryResults}

\* The responses the Registry Service gives to query-tools.
QueryToolsResponses ==
    {queryToolsHandler("ok", found) : found \in RegistryFound}
        \cup {queryToolsHandler("error", <<>>)}

\* RegistryClient.getJsonContent: the first item with type "text" and
\* isJson === true; 0 when there is none (it throws).
getJsonContent(content) ==
    LET json == {k \in 1..Len(content) : content[k].type = "text" /\ content[k].isJson}
    IN  IF json = {} THEN 0 ELSE CHOOSE k \in json : \A j \in json : k <= j

\* RegistryClient.queryTools on the response of callTool: the parsed array
\* with its servers rebuilt; [] with rawResult "[]" when there is no JSON
\* item, when the text is no JSON, and when it is null (null.map throws).
RegistryClient_queryTools(content) ==
    LET k == getJsonContent(content)
    IN  IF k # 0 /\ content[k].text.kind = "array"
        THEN [result |-> content[k].text.items, rawResult |-> "json"]
        ELSE [result |-> <<>>, rawResult |-> "[]"]

(***************************************************************************)
(* ToolStore.executeTool and ensureClientConnection                        *)
(***************************************************************************)
\* A dispatch that lets a registered upstream tool shadow a registry tool.
IsRegistryTool_shadowed(name) == name \in Tools /\ ~InfoHas(toolServerInfo, name)

\* The dispatch test of executeTool: `this.rc.Tools().has(toolName)`.
IsRegistryTool(name) == name \in Tools

\* ensureClientConnection throws at once: no server info for the tool.
ThrowsAtEntry(name) == ~IsRegistryTool(name) /\ ~InfoHas(toolServerInfo, name)

\* An executeTool that connects without asking the cache.
ExecEntry_alwaysConnects(i, name, id) ==
    IF IsRegistryTool(name)
    THEN /\ calls' = [calls EXCEPT ![i] =
                [op |-> "executeTool", pc |-> "registry", url |-> "", type |-> "",
                 name |-> name, id |-> id, client |-> NoClient]]
         /\ UNCHANGED <<toolVars, poolVars, last>>
    ELSE IF ~InfoHas(toolServerInfo, name)
    THEN /\ last' = [NoLast EXCEPT !.op = "executeTool", !.outcome = "error"]
         /\ UNCHANGED <<toolVars, poolVars, calls>>
    ELSE LET serverInfo == toolServerInfo[name]
         IN /\ calls' = [calls EXCEPT ![i] =
                   [op |-> "executeTool", pc |-> "connecting",
                    url |-> serverInfo.serverUrl, type |-> serverInfo.serverType,
                    name |-> name, id |-> id, client |-> NoClient]]
            /\ UNCHANGED <<toolVars, poolVars, last>>

\* executeTool up to its first await.
ExecEntry(i, name, id) ==
    IF IsRegistryTool(name)
    THEN /\ calls' = [calls EXCEPT ![i] =
                [op |-> "executeTool", pc |-> "registry", url |-> "", type |-> "",
                 name |-> name, id |-> id, client |-> NoClient]]
         /\ UNCHANGED <<toolVars, poolVars, last>>
    ELSE IF ~InfoHas(toolServerInfo, name)
    THEN /\ last' = [NoLast EXCEPT !.op = "executeTool", !.outcome = "error"]
         /\ UNCHANGED <<toolVars, poolVars, calls>>
    ELSE LET serverInfo == toolServerInfo[name]
             g == LruGet(clientCache,
                         cacheKey(serverInfo.serverUrl, serverInfo.serverType))
         IN /\ clientCache' = g.cache
            /\ clientState' = dispose(clientState, g.disposed)
            /\ Disposed(g.disposed)
            /\ Used(g.disposed, g.value)
            /\ calls' = [calls EXCEPT ![i] =
                   [op |-> "executeTool",
                    pc |-> IF g.value = NoClient THEN "connecting" ELSE "calling",
                    url |-> serverInfo.serverUrl, type |-> serverInfo.serverType,
                    name |-> name, id |-> id, client |-> g.value]]
            /\ UNCHANGED <<toolVars, last>>

\* executeTool called on the ToolStore from outside the loop.
executeTool(i, name, id) ==
    /\ FreeCall(i)
    /\ ExecEntry(i, name, id)
    /\ ops' = ops + 1
    /\ UNCHANGED loopVars
    /\ UNCHANGED <<regVars, msgVars, storerVars>>

ensureClientConnection_connected(i) ==
    /\ calls[i].op = "executeTool"
    /\ calls[i].pc = "connecting"
    /\ \E c \in Clients : FreshClient(c) /\ Connected(i, c, "calling")
    /\ UNCHANGED <<toolVars, last, ops, loopVars>>
    /\ UNCHANGED <<regVars, msgVars, storerVars>>

ExecLast(outcome) == [NoLast EXCEPT !.op = "executeTool", !.outcome = outcome]

\* The connector, callTool or the registry call rejects (or callTool answers
\* undefined): executeTool logs and rethrows.
executeTool_fails(i) ==
    /\ calls[i].op = "executeTool"
    /\ calls[i].pc \in {"connecting", "calling", "registry"}
    /\ Finish(i, ExecLast("error"))
    /\ Deliver(i, "error", calls[i].id, "tool error", FALSE)
    /\ UNCHANGED <<toolVars, poolVars, ops>>
    /\ UNCHANGED <<regVars, msgVars, storerVars>>

\* callTool answers: the result is wrapped into a ToolResultBlock.
executeTool_called(i, isError) ==
    /\ calls[i].op = "executeTool"
    /\ calls[i].pc = "calling"
    /\ Finish(i, ExecLast("ok"))
    /\ Deliver(i, "ok", calls[i].id, "result", isError)
    /\ UNCHANGED <<toolVars, poolVars, ops>>
    /\ UNCHANGED <<regVars, msgVars, storerVars>>

\* `successfully queried and added ${toolNames}`, the names joined by ", ".
summary(result) ==
    IF result = <<>> THEN "successfully queried and added "
    ELSE IF result[1].name = "weather" THEN "successfully queried and added weather"
    ELSE "successfully queried and added query-tools"

\* A query-tools branch that forgets to register the origins.
executeTool_registry_noRegister(i, response) ==
    /\ calls[i].op = "executeTool"
    /\ calls[i].pc = "registry"
    /\ LET q == calls[i].name = "query-tools"
           result == RegistryClient_queryTools(response).result
           text == IF q THEN summary(result) ELSE "rawResult"
       IN /\ UNCHANGED toolVars
          /\ Finish(i, [ExecLast("ok") EXCEPT
                           !.advertised = IF q THEN result ELSE <<>>,
                           !.response = IF q THEN response ELSE <<>>])
          /\ Deliver(i, "ok", calls[i].id, text, FALSE)
    /\ UNCHANGED <<poolVars, ops>>
    /\ UNCHANGED <<regVars, msgVars, storerVars>>

\* The registry answers.  After query-tools the origins are registered and the
\* block carries the summary; the other tools pass the raw result on.
executeTool_registry(i, response) ==
    /\ calls[i].op = "executeTool"
    /\ calls[i].pc = "registry"
    /\ LET q == calls[i].name = "query-tools"
           result == RegistryClient_queryTools(response).result
           box == IF q THEN registerToolsInto(Toolbox, result) ELSE Toolbox
           text == IF q THEN summary(result) ELSE "rawResult"
       IN /\ availableTools' = box.tools
          /\ toolServerInfo' = box.info
          /\ Finish(i, [ExecLast("ok") EXCEPT
                           !.advertised = IF q THEN result ELSE <<>>,
                           !.response = IF q THEN response ELSE <<>>])
          /\ Deliver(i, "ok", calls[i].id, text, FALSE)
    /\ UNCHANGED <<poolVars, ops>>
    /\ UNCHANGED <<regVars, msgVars, storerVars>>

(***************************************************************************)
(* The environment of the pool: client.close() settles, time passes.       *)
(***************************************************************************)
closeSettles(c, how) ==
    /\ clientState[c] = "closing"
    /\ clientState' = [clientState EXCEPT ![c] = how]
    /\ UNCHANGED <<toolVars, clientCache, disposals, disposeReason, recency, calls,
                   last, ops, loopVars>>
    /\ UNCHANGED <<regVars, msgVars, storerVars>>

\* Time passes: the entries set no later than that of client c (clients are
\* numbered as they are created, and set into the cache at once) are now
\* older than the ttl.
Tick(c) ==
    /\ \E i \in 1..Len(clientCache) : clientCache[i].client = c /\ ~clientCache[i].expired
    /\ clientCache' = [i \in 1..Len(clientCache) |->
           IF clientCache[i].client <= c
           THEN [clientCache[i] EXCEPT !.expired = TRUE]
           ELSE clientCache[i]]
    /\ UNCHANGED <<toolVars, clientState, disposals, disposeReason, recency, calls,
                   last, ops, loopVars>>
    /\ UNCHANGED <<regVars, msgVars, storerVars>>

(***************************************************************************)
(* The Agent: what Agent.chat may answer.                                  *)
(***************************************************************************)
AgentToolNames == {"weather", "query-tools"}

AgentBlocks ==
    {TextBlock("text", TRUE), ThinkingBlock, UserInputBlock, FinalResponseBlock}
    \cup {ToolUseBlock(id, name) : id \in ToolUseIds, name \in AgentToolNames}
    \cup {ToolResultBlock("t1", "agent", FALSE)}

\* The contents of one answer of at most n blocks.
AgentAnswers(n) ==
    UNION {[1..k -> AgentBlocks] : k \in 0..(IF n < MaxAgentBlocks THEN n ELSE MaxAgentBlocks)}

(***************************************************************************)
(* AntClient.processQuery                                                  *)
(***************************************************************************)
reEvalPrompt == "re-evaluate"

\* messages[j] of a JavaScript array: the place of index j, or 0 (undefined)
\* when j is no index of the array.
ArrayAt(msgs, j) == IF j \in 0..(Len(msgs) - 1) THEN j + 1 ELSE 0

\* `messages[-1]?.addContent(new TextBlock(depthMessage, true))`
addDepthMessage(msgs) ==
    LET k == ArrayAt(msgs, -1) IN
    IF k = 0 THEN msgs
    ELSE [msgs EXCEPT ![k].content = Append(@, TextBlock(depthMessage, TRUE))]

\* A flush that writes the scratch message over the last message.
flush_overwrites(msgs, scratch) ==
    IF Len(scratch) > 0 /\ Len(msgs) > 0
    THEN [msgs EXCEPT ![Len(msgs)] = Message("assistant", scratch)]
    ELSE msgs

\* `if (processedMessages.content.length > 0) messages = messages.concat(processedMessages)`
flush(msgs, scratch) ==
    IF Len(scratch) > 0 THEN Append(msgs, Message("assistant", scratch)) ELSE msgs

\* processQuery(query) at depth 0, up to `await this.agent.chat(...)`; the
\* Agent answers at most n blocks in the turn.
processQuery(n) ==
    /\ pc = "idle"
    /\ pc' = "chat"
    /\ recursionDepth' = 0
    /\ messages' = <<Message("user", <<TextBlock("query", TRUE)>>)>>
    /\ processedMessages' = <<>>
    /\ newMessages' = <<>>
    /\ chats' = 1
    /\ budget' = n
    /\ chatTools' = getAvailableTools
    /\ UNCHANGED <<toolVars, poolVars, calls, last, ops>>
    /\ UNCHANGED <<regVars, msgVars, storerVars>>

\* Agent.chat answers one message; a message of another role is skipped.
\* (An Agent that has answered nothing keeps answering nothing.)
chat_returns(role, content) ==
    /\ pc = "chat"
    /\ pc' = "walk"
    /\ newMessages' = IF role = "assistant" THEN content ELSE <<>>
    /\ budget' = IF content = <<>> THEN 0 ELSE budget - Len(content)
    /\ UNCHANGED chatTools
    /\ UNCHANGED <<recursionDepth, messages, processedMessages, chats>>
    /\ UNCHANGED <<toolVars, poolVars, calls, last, ops>>
    /\ UNCHANGED <<regVars, msgVars, storerVars>>

\* A processQuery without its catch: the error of Agent.chat escapes.
chat_throws_raises ==
    /\ pc = "chat"
    /\ pc' = "raised"
    /\ UNCHANGED <<recursionDepth, messages, processedMessages, newMessages, chats,
                   budget, chatTools>>
    /\ UNCHANGED <<toolVars, poolVars, calls, last, ops>>
    /\ UNCHANGED <<regVars, msgVars, storerVars>>

\* Agent.chat throws: the catch of processQuery returns the conversation with
\* a system message holding an Exception block.
chat_throws ==
    /\ pc = "chat"
    /\ pc' = "returned"
    /\ messages' = Append(flush(messages, processedMessages),
                          Message("system", <<ExceptionBlock("Error processing query")>>))
    /\ UNCHANGED <<recursionDepth, processedMessages, newMessages, chats, budget, chatTools>>
    /\ UNCHANGED <<toolVars, poolVars, calls, last, ops>>
    /\ UNCHANGED <<regVars, msgVars, storerVars>>

\* A TEXT, TOOL_RESULT or THINKING block goes into the scratch message.
walk_append ==
    /\ pc = "walk"
    /\ newMessages # <<>>
    /\ Head(newMessages).type \in {"TEXT", "TOOL_RESULT", "THINKING"}
    /\ processedMessages' = Append(processedMessages, Head(newMessages))
    /\ newMessages' = Tail(newMessages)
    /\ UNCHANGED <<pc, recursionDepth, messages, chats, budget, chatTools>>
    /\ UNCHANGED <<toolVars, poolVars, calls, last, ops>>
    /\ UNCHANGED <<regVars, msgVars, storerVars>>

\* A walk that starts the tool call and goes on without awaiting it.
walk_toolUse_noAwait ==
    /\ pc = "walk"
    /\ newMessages # <<>>
    /\ Head(newMessages).type = "TOOL_USE"
    /\ LET b == Head(newMessages) IN
          /\ ExecEntry(LoopCall, b.name, b.id)
          /\ processedMessages' = Append(processedMessages, b)
          /\ pc' = "walk"
    /\ newMessages' = Tail(newMessages)
    /\ UNCHANGED <<recursionDepth, messages, chats, budget, chatTools, ops>>
    /\ UNCHANGED <<regVars, msgVars, storerVars>>

\* A TOOL_USE block goes into the scratch message and is executed; an error
\* thrown before the first await is caught at once.
walk_toolUse ==
    /\ pc = "walk"
    /\ newMessages # <<>>
    /\ Head(newMessages).type = "TOOL_USE"
    /\ LET b == Head(newMessages) IN
          /\ ExecEntry(LoopCall, b.name, b.id)
          /\ IF ThrowsAtEntry(b.name)
             THEN /\ processedMessages' =
                        processedMessages \o <<b, ExceptionBlock("tool error")>>
                  /\ pc' = "walk"
             ELSE /\ processedMessages' = Append(processedMessages, b)
                  /\ pc' = "tool"
    /\ newMessages' = Tail(newMessages)
    /\ UNCHANGED <<recursionDepth, messages, chats, budget, chatTools, ops>>
    /\ UNCHANGED <<regVars, msgVars, storerVars>>

\* A walk that appends the sentinel and goes on with the next block.
walk_sentinel_continues ==
    /\ pc = "walk"
    /\ newMessages # <<>>
    /\ Head(newMessages).type \in {"NEED_USER_INPUT", "FINAL_RESPONSE"}
    /\ processedMessages' = Append(processedMessages, Head(newMessages))
    /\ newMessages' = Tail(newMessages)
    /\ UNCHANGED <<pc, messages, recursionDepth, chats, budget, chatTools>>
    /\ UNCHANGED <<toolVars, poolVars, calls, last, ops>>
    /\ UNCHANGED <<regVars, msgVars, storerVars>>

\* A NEED_USER_INPUT or FINAL_RESPONSE block ends the turn.
walk_sentinel ==
    /\ pc = "walk"
    /\ newMessages # <<>>
    /\ Head(newMessages).type \in {"NEED_USER_INPUT", "FINAL_RESPONSE"}
    /\ processedMessages' = Append(processedMessages, Head(newMessages))
    /\ messages' = Append(messages, Message("assistant", processedMessages'))
    /\ newMessages' = Tail(newMessages)
    /\ pc' = "returned"
    /\ UNCHANGED <<recursionDepth, chats, budget, chatTools>>
    /\ UNCHANGED <<toolVars, poolVars, calls, last, ops>>
    /\ UNCHANGED <<regVars, msgVars, storerVars>>

\* A recursion that stops one level too late.
recurse_offByOne ==
    /\ pc = "walk"
    /\ newMessages = <<>>
    /\ recursionDepth' = recursionDepth + 1
    /\ processedMessages' = <<>>
    /\ IF recursionDepth + 1 > MAX_RECURSION_DEPTH
       THEN /\ messages' = addDepthMessage(flush(messages, processedMessages))
            /\ pc' = "returned"
            /\ UNCHANGED <<chats, chatTools>>
       ELSE /\ messages' = Append(flush(messages, processedMessages),
                                  Message("user", <<TextBlock(reEvalPrompt, FALSE)>>))
            /\ pc' = "chat"
            /\ chats' = chats + 1
            /\ chatTools' = getAvailableTools
    /\ UNCHANGED <<newMessages, budget>>
    /\ UNCHANGED <<toolVars, poolVars, calls, last, ops>>
    /\ UNCHANGED <<regVars, msgVars, storerVars>>

\* The blocks are drained: the scratch is flushed and processQuery calls
\* itself with recursionDepth + 1, which returns at the cap or asks the
\* Agent again.
recurse ==
    /\ pc = "walk"
    /\ newMessages = <<>>
    /\ recursionDepth' = recursionDepth + 1
    /\ processedMessages' = <<>>
    /\ IF recursionDepth + 1 >= MAX_RECURSION_DEPTH
       THEN /\ messages' = addDepthMessage(flush(messages, processedMessages))
            /\ pc' = "returned"
            /\ UNCHANGED <<chats, chatTools>>
       ELSE /\ messages' = Append(flush(messages, processedMessages),
                                  Message("user", <<TextBlock(reEvalPrompt, FALSE)>>))
            /\ pc' = "chat"
            /\ chats' = chats + 1
            /\ chatTools' = getAvailableTools
    /\ UNCHANGED <<newMessages, budget>>
    /\ UNCHANGED <<toolVars, poolVars, calls, last, ops>>
    /\ UNCHANGED <<regVars, msgVars, storerVars>>

\* AntClient.cleanup(), which main awaits once the chat loop has ended.
AntClient_cleanup ==
    /\ pc = "returned"
    /\ pc' = "cleaned"
    /\ clear
    /\ UNCHANGED <<ops, recursionDepth, messages, processedMessages, newMessages,
                   chats, budget, chatTools>>
    /\ UNCHANGED <<regVars, msgVars, storerVars>>

(***************************************************************************)
(* AntClient.chatLoop: what the REPL prints for a turn                     *)
(***************************************************************************)
\* The piece of userResponse one block adds: nothing for a block that is not
\* user facing or whose type the loop has no branch for.
printBlock(block) ==
    IF ~block.userFacing THEN <<>>
    ELSE IF block.type = "TEXT" THEN <<block.text>>
    ELSE IF block.type = "FINAL_RESPONSE" THEN <<block.text>>
    ELSE IF block.type = "TOOL_USE" THEN <<"Calling..." \o block.name>>
    ELSE IF block.type = "EXCEPTION" THEN <<"Error: " \o block.text>>
    ELSE <<>>

RECURSIVE printBlocks(_)
printBlocks(content) ==
    IF content = <<>> THEN <<>>
    ELSE printBlock(Head(content)) \o printBlocks(Tail(content))

\* userResponse as chatLoop builds it from the conversation processQuery
\* returned, one element per piece added.
RECURSIVE userResponse(_)
userResponse(conversationMessages) ==
    IF conversationMessages = <<>> THEN <<>>
    ELSE LET message == Head(conversationMessages) IN
         (IF message.role = "system" THEN <<"System message: ">> ELSE <<>>)
             \o printBlocks(message.content)
             \o userResponse(Tail(conversationMessages))

(***************************************************************************)
(* inMemoryRegistry: the tool map, the servers and the similarity index    *)
(***************************************************************************)

MaxRegCalls == 2
MaxRegOps == 5

\* The limit queryTools uses when the caller gives none (or 0).
DefaultLimit == 10

RegNames == {"a", "b"}
RegServers == {[url |-> "u1", type |-> "sse"], [url |-> "u2", type |-> "sse"]}
RegCallIds == 1..MaxRegCalls
\* A call that omits the limit.
Omitted == -1
\* The limits a caller passes.
Limits == {Omitted, 0, 1, 2}

mainVars == <<toolVars, poolVars, calls, last, ops, loopVars>>

\* MCPServer.getId: `${url}::${type}`.
getId(server) == <<server.url, server.type>>

\* The Document addTool and deleteTool build for a tool of a server.
Document(name, server) == [name |-> name, serverId |-> getId(server)]

IdleRegCall ==
    [op |-> "none", name |-> "", store |-> 0, docs |-> <<>>, asked |-> 0, limit |-> 0,
     since |-> {}]

\* `response` is the content the meta-tool handler of the call answers with.
NoRegLast ==
    [op |-> "none", outcome |-> "none", name |-> "", result |-> <<>>, response |-> <<>>]

\* this.tools.has(name)
MapHas(map, name) == \E i \in 1..Len(map) : map[i].name = name

\* this.tools.set(name, {tool, server}): a Map keeps the position of a key
\* it already holds.
MapSet(map, name, server) ==
    IF MapHas(map, name)
    THEN [i \in 1..Len(map) |->
             IF map[i].name = name THEN [name |-> name, server |-> server] ELSE map[i]]
    ELSE Append(map, [name |-> name, server |-> server])

\* this.tools.delete(name)
MapDelete(map, name) == SelectSeq(map, LAMBDA e : e.name # name)

\* this.servers.set(server.getId(), server)
ServersSet(set, server) == {s \in set : getId(s) # getId(server)} \cup {server}

\* The documents deleteTool rebuilds the index from: one per map entry.
remainingDocuments(map) ==
    [i \in 1..Len(map) |-> Document(map[i].name, map[i].server)]

\* The elements of a sequence at the positions S, in their order.
Pick(docs, S) ==
    [j \in 1..Cardinality(S) |->
        docs[CHOOSE x \in S : Cardinality({y \in S : y < x}) = j - 1]]

\* similaritySearch(query, k): k documents of the store (all of them when it
\* holds fewer); which ones depends on the embedding of the query.
similaritySearch(docs, k) ==
    LET n == IF k < Len(docs) THEN k ELSE Len(docs)
    IN  {Pick(docs, S) : S \in {T \in SUBSET (1..Len(docs)) : Cardinality(T) = n}}

\* queryTools maps each document to {tool, server}, dropping those whose
\* server id is not in this.servers.
toToolsWithServer(docs, set) ==
    LET known == SelectSeq(docs, LAMBDA d : \E s \in set : getId(s) = d.serverId)
    IN  [i \in 1..Len(known) |->
            [name |-> known[i].name,
             server |-> CHOOSE s \in set : getId(s) = known[i].serverId]]

FreeRegCall(i) ==
    /\ regOps < MaxRegOps
    /\ regCalls[i].op = "none"
    /\ regOps' = regOps + 1

RegFinish(i, result) ==
    /\ regCalls' = [regCalls EXCEPT ![i] = IdleRegCall]
    /\ regLast' = result

\* addTool up to `await this.vectorStore!.addDocuments([document])`: the map
\* and the servers are written, the document is on its way into the store
\* that is current now.
addTool(i, name, server) ==
    /\ FreeRegCall(i)
    /\ tools' = MapSet(tools, name, server)
    /\ servers' = ServersSet(servers, server)
    /\ regCalls' = [j \in RegCallIds |->
           IF j = i
           THEN [IdleRegCall EXCEPT !.op = "addTool", !.name = name,
                                    !.store = vectorStore,
                                    !.docs = <<Document(name, server)>>]
           ELSE [regCalls[j] EXCEPT !.since = @ \ {name}]]
    /\ deletedSince' = deletedSince \ {name}
    /\ UNCHANGED <<stores, vectorStore, regLast>>
    /\ UNCHANGED <<mainVars, msgVars, storerVars, addServerCall>>

\* addDocuments resolves: the document is appended to the store, whatever it
\* already holds.
addTool_indexed(i) ==
    /\ regCalls[i].op = "addTool"
    /\ stores' = [stores EXCEPT ![regCalls[i].store] = @ \o regCalls[i].docs]
    /\ RegFinish(i, [NoRegLast EXCEPT !.op = "addTool", !.outcome = "ok",
                                       !.name = regCalls[i].name])
    /\ UNCHANGED <<tools, servers, vectorStore, regOps, deletedSince>>
    /\ UNCHANGED <<mainVars, msgVars, storerVars, addServerCall>>

\* addDocuments rejects (the embedding request failed): addTool raises, the
\* map keeps the tool.
addTool_fails(i) ==
    /\ regCalls[i].op = "addTool"
    /\ RegFinish(i, [NoRegLast EXCEPT !.op = "addTool", !.outcome = "error",
                                       !.name = regCalls[i].name])
    /\ UNCHANGED <<tools, servers, stores, vectorStore, regOps, deletedSince>>
    /\ UNCHANGED <<mainVars, msgVars, storerVars, addServerCall>>

\* deleteTool up to `await MemoryVectorStore.fromDocuments(...)`: false at
\* once for a name the map does not hold, else the name leaves the map and
\* the remaining entries are the documents of the store to come.
deleteTool(i, name) ==
    /\ FreeRegCall(i)
    /\ IF ~MapHas(tools, name)
       THEN /\ regLast' = [NoRegLast EXCEPT !.op = "deleteTool", !.outcome = "false",
                                             !.name = name]
            /\ UNCHANGED <<tools, regCalls>>
       ELSE /\ tools' = MapDelete(tools, name)
            /\ regCalls' = [regCalls EXCEPT ![i] =
                   [IdleRegCall EXCEPT !.op = "deleteTool", !.name = name,
                                       !.docs = remainingDocuments(tools')]]
            /\ UNCHANGED regLast
    /\ UNCHANGED <<servers, stores, vectorStore, deletedSince>>
    /\ UNCHANGED <<mainVars, msgVars, storerVars, addServerCall>>

\* fromDocuments resolves: the new store replaces this.vectorStore and
\* deleteTool returns true.
deleteTool_rebuilt(i) ==
    /\ regCalls[i].op = "deleteTool"
    /\ stores' = Append(stores, regCalls[i].docs)
    /\ vectorStore' = Len(stores')
    /\ deletedSince' = deletedSince \cup {regCalls[i].name}
    /\ RegFinish(i, [NoRegLast EXCEPT !.op = "deleteTool", !.outcome = "true",
                                       !.name = regCalls[i].name])
    /\ UNCHANGED <<tools, servers, regOps>>
    /\ UNCHANGED <<mainVars, msgVars, storerVars, addServerCall>>

\* fromDocuments rejects: deleteTool raises, the name has left the map and
\* the old store stays.
deleteTool_fails(i) ==
    /\ regCalls[i].op = "deleteTool"
    /\ RegFinish(i, [NoRegLast EXCEPT !.op = "deleteTool", !.outcome = "error",
                                       !.name = regCalls[i].name])
    /\ UNCHANGED <<tools, servers, stores, vectorStore, regOps, deletedSince>>
    /\ UNCHANGED <<mainVars, msgVars, storerVars, addServerCall>>

\* queryTools up to `await this.vectorStore.similaritySearch(...)`.
queryTools(i, limit) ==
    /\ FreeRegCall(i)
    /\ regCalls' = [regCalls EXCEPT ![i] =
           [IdleRegCall EXCEPT !.op = "queryTools", !.store = vectorStore,
                               !.asked = limit,
                               !.limit = IF limit = Omitted \/ limit = 0
                                         THEN DefaultLimit ELSE limit,
                               !.since = deletedSince]]
    /\ UNCHANGED <<tools, servers, stores, vectorStore, regLast, deletedSince>>
    /\ UNCHANGED <<mainVars, msgVars, storerVars, addServerCall>>

\* similaritySearch resolves with documents of the store the call began on.
queryTools_found(i) ==
    /\ regCalls[i].op = "queryTools"
    /\ \E results \in similaritySearch(stores[regCalls[i].store], regCalls[i].limit) :
          LET found == toToolsWithServer(results, servers)
          IN  RegFinish(i, [NoRegLast EXCEPT
                               !.op = "queryTools", !.outcome = "ok", !.result = found,
                               !.response = queryToolsHandler("ok", found)])
    /\ UNCHANGED <<tools, servers, stores, vectorStore, regOps, deletedSince>>
    /\ UNCHANGED <<mainVars, msgVars, storerVars, addServerCall>>

\* similaritySearch rejects: queryTools raises.
queryTools_fails(i) ==
    /\ regCalls[i].op = "queryTools"
    /\ RegFinish(i, [NoRegLast EXCEPT !.op = "queryTools", !.outcome = "error",
                                       !.response = queryToolsHandler("error", <<>>)])
    /\ UNCHANGED <<tools, servers, stores, vectorStore, regOps, deletedSince>>
    /\ UNCHANGED <<mainVars, msgVars, storerVars, addServerCall>>

\* listTools: the tools of the map, in its order.
listTools ==
    /\ regOps < MaxRegOps
    /\ regOps' = regOps + 1
    /\ regLast' = [NoRegLast EXCEPT !.op = "listTools", !.outcome = "ok",
                                     !.result = tools,
                                     !.response = listToolsHandler("ok", tools)]
    /\ UNCHANGED <<tools, servers, stores, vectorStore, regCalls, deletedSince>>
    /\ UNCHANGED <<mainVars, msgVars, storerVars, addServerCall>>


(***************************************************************************)
(* inMemoryRegistry.addServer                                              *)
(***************************************************************************)
MaxAddServer == 2

\* What ToolsFromClient may answer for a server.
RegToolLists == {<<>>, <<"a">>, <<"a", "b">>}

\* `pending` are the tools whose addTool waits for addDocuments, `store` the
\* vector store those documents go to, `listed` what the server advertised.
NoAddServer ==
    [pc |-> "idle", server |-> [url |-> "", type |-> ""], listed |-> <<>>,
     pending |-> {}, store |-> 0, failed |-> FALSE]

addServerOthers == <<mainVars, msgVars, storerVars>>

\* this.tools.set(tool.name, ...) of every addTool that tools.map starts,
\* in the order of the list.
RECURSIVE MapSetAll(_, _, _)
MapSetAll(map, names, server) ==
    IF names = <<>> THEN map
    ELSE MapSetAll(MapSet(map, Head(names), server), Tail(names), server)

\* addServer up to `await connector.connect(opts)`: the server string is
\* parsed and the server recorded.
addServer(server) ==
    /\ regOps < MaxAddServer
    /\ addServerCall.pc \in {"idle", "returned", "threw"}
    /\ addServerCall.pending = {}
    /\ regOps' = regOps + 1
    /\ servers' = ServersSet(servers, server)
    /\ addServerCall' = [NoAddServer EXCEPT !.pc = "connecting", !.server = server]
    /\ UNCHANGED <<tools, stores, vectorStore, regCalls, regLast, deletedSince>>
    /\ UNCHANGED addServerOthers

\* connector.connect or ToolsFromClient rejects: addServer throws.
addServer_fails ==
    /\ addServerCall.pc = "connecting"
    /\ addServerCall' = [addServerCall EXCEPT !.pc = "threw"]
    /\ regLast' = [NoRegLast EXCEPT !.op = "addServer", !.outcome = "error"]
    /\ UNCHANGED <<tools, servers, stores, vectorStore, regCalls, regOps, deletedSince>>
    /\ UNCHANGED addServerOthers

\* The tools are listed and tools.map starts one addTool per tool: each
\* writes the map and the servers and waits for addDocuments.
addServer_listed(listed) ==
    /\ addServerCall.pc = "connecting"
    /\ tools' = MapSetAll(tools, listed, addServerCall.server)
    /\ servers' = IF listed = <<>> THEN servers
                  ELSE ServersSet(servers, addServerCall.server)
    /\ deletedSince' = deletedSince \ {listed[k] : k \in 1..Len(listed)}
    /\ addServerCall' = [addServerCall EXCEPT
                            !.pc = "adding", !.listed = listed,
                            !.pending = {listed[k] : k \in 1..Len(listed)},
                            !.store = vectorStore]
    /\ UNCHANGED <<stores, vectorStore, regCalls, regLast, regOps>>
    /\ UNCHANGED addServerOthers

\* addDocuments of one of the addTool calls resolves.
addServer_toolIndexed(name) ==
    /\ name \in addServerCall.pending
    /\ stores' = [stores EXCEPT ![addServerCall.store] =
                      Append(@, Document(name, addServerCall.server))]
    /\ addServerCall' = [addServerCall EXCEPT !.pending = @ \ {name}]
    /\ UNCHANGED <<tools, servers, vectorStore, regCalls, regLast, regOps, deletedSince>>
    /\ UNCHANGED addServerOthers

\* addDocuments of one of the addTool calls rejects: that addTool throws
\* and Promise.all will reject.
addServer_toolFails(name) ==
    /\ name \in addServerCall.pending
    /\ addServerCall' = [addServerCall EXCEPT !.pending = @ \ {name}, !.failed = TRUE]
    /\ UNCHANGED <<tools, servers, stores, vectorStore, regCalls, regLast, regOps,
                   deletedSince>>
    /\ UNCHANGED addServerOthers

\* Promise.all resolves: every addTool returned, addServer returns the tools.
addServer_returns ==
    /\ addServerCall.pc = "adding"
    /\ addServerCall.pending = {}
    /\ ~addServerCall.failed
    /\ addServerCall' = [addServerCall EXCEPT !.pc = "returned"]
    /\ regLast' = [NoRegLast EXCEPT !.op = "addServer", !.outcome = "ok"]
    /\ UNCHANGED <<tools, servers, stores, vectorStore, regCalls, regOps, deletedSince>>
    /\ UNCHANGED addServerOthers

\* Promise.all rejects with the first failure, whether or not the other
\* addTool calls have settled: addServer throws.
addServer_throws ==
    /\ addServerCall.pc = "adding"
    /\ addServerCall.failed
    /\ addServerCall' = [addServerCall EXCEPT !.pc = "threw"]
    /\ regLast' = [NoRegLast EXCEPT !.op = "addServer", !.outcome = "error"]
    /\ UNCHANGED <<tools, servers, stores, vectorStore, regCalls, regOps, deletedSince>>
    /\ UNCHANGED addServerOthers

(***************************************************************************)
(* The ToolStorers: DynamoDBToolStorer and RedisToolStorer                 *)
(***************************************************************************)
MaxRev == 2
MaxIds == 3

\* Tool ids `${server.url}-${tool.name}`.
ToolIds == {<<"u1", "a">>, <<"u1", "b">>}
\* The id lists a caller passes, the empty list stands for an omitted one too.
IdLists == UNION {[1..n -> ToolIds] : n \in 0..MaxIds}
Revs == 1..MaxRev

\* A ToolWithServerInfo as the storers keep it; `rev` tells one upsert of
\* the tool from the next.
ToolWithServerInfo(id, rev) == [kind |-> "tool", url |-> id[1], name |-> id[2], rev |-> rev]
\* null
Null == [kind |-> "null", url |-> "", name |-> "", rev |-> 0]
\* JSON.GET key $ answers the JSON text of the array of the values the path
\* matches: parsed, the stored value sits in an array of one element.
Matches(value) == [value EXCEPT !.kind = "array"]

storerOthers == <<mainVars, regVars, msgVars>>

NoGet == [storer |-> "none", outcome |-> "none", ids |-> <<>>, result |-> <<>>]

\* toolIds.indexOf(id), counted from 1; 0 for -1.
indexOf(ids, id) ==
    IF \E k \in 1..Len(ids) : ids[k] = id
    THEN CHOOSE k \in 1..Len(ids) : ids[k] = id /\ \A j \in 1..(k - 1) : ids[j] # id
    ELSE 0

\* upsertTool: PutCommand {id, data} / JSON.SET id $ data.
Dynamo_upsertTool(id, rev) ==
    /\ dynamoTable' = [dynamoTable EXCEPT ![id] = rev]
    /\ UNCHANGED <<redisKeys, getLast>>
    /\ UNCHANGED storerOthers

Redis_upsertTool(id, rev) ==
    /\ redisKeys' = [redisKeys EXCEPT ![id] = rev]
    /\ UNCHANGED <<dynamoTable, getLast>>
    /\ UNCHANGED storerOthers

\* deleteTool: DeleteCommand / JSON.DEL.
Dynamo_deleteTool(id) ==
    /\ dynamoTable' = [dynamoTable EXCEPT ![id] = 0]
    /\ UNCHANGED <<redisKeys, getLast>>
    /\ UNCHANGED storerOthers

Redis_deleteTool(id) ==
    /\ redisKeys' = [redisKeys EXCEPT ![id] = 0]
    /\ UNCHANGED <<dynamoTable, getLast>>
    /\ UNCHANGED storerOthers

\* What BatchGetCommand answers for the keys of `ids` (lists here are shorter
\* than one batch of 100): the stored items among the keys, each once and in
\* any order; a request that names a key twice is also rejected by the
\* service.
BatchGet(ids) ==
    LET asked == {ids[k] : k \in 1..Len(ids)}
        stored == {id \in asked : dynamoTable[id] # 0}
        n == Cardinality(stored)
        orders == {f \in [1..n -> stored] : \A x, y \in 1..n : f[x] = f[y] => x = y}
        items == {[rejected |-> FALSE,
                   items |-> [j \in 1..n |-> [id |-> f[j],
                                              data |-> ToolWithServerInfo(f[j], dynamoTable[f[j]])]]]
                    : f \in orders}
    IN  IF Cardinality(asked) < Len(ids)
        THEN items \cup {[rejected |-> TRUE, items |-> <<>>]}
        ELSE items

\* The results array of DynamoDBToolStorer.getToolsById: null everywhere,
\* then each item's data at toolIds.indexOf(item.id).
DynamoResults(ids, items) ==
    [k \in 1..Len(ids) |->
        IF \E j \in 1..Len(items) : indexOf(ids, items[j].id) = k
        THEN (CHOOSE it \in {items[j] : j \in 1..Len(items)} : indexOf(ids, it.id) = k).data
        ELSE Null]

Dynamo_getToolsById(ids) ==
    /\ IF Len(ids) = 0
       THEN getLast' = [storer |-> "dynamo", outcome |-> "ok", ids |-> ids, result |-> <<>>]
       ELSE \E answer \in BatchGet(ids) :
               getLast' =
                   IF answer.rejected
                   THEN [storer |-> "dynamo", outcome |-> "error", ids |-> ids, result |-> <<>>]
                   ELSE [storer |-> "dynamo", outcome |-> "ok", ids |-> ids,
                         result |-> DynamoResults(ids, answer.items)]
    /\ UNCHANGED <<dynamoTable, redisKeys>>
    /\ UNCHANGED storerOthers

\* The reply of one JSON.GET id $ of the pipeline, parsed: null for a key
\* that is not there (`!data`, then JSON.parse(null)), else JSON.parse of
\* the text JSON.GET answered.
RedisResult(id) ==
    IF redisKeys[id] = 0 THEN Null
    ELSE Matches(ToolWithServerInfo(id, redisKeys[id]))

Redis_getToolsById(ids) ==
    /\ getLast' = [storer |-> "redis", outcome |-> "ok", ids |-> ids,
                   result |-> [k \in 1..Len(ids) |-> RedisResult(ids[k])]]
    /\ UNCHANGED <<dynamoTable, redisKeys>>
    /\ UNCHANGED storerOthers

(***************************************************************************)
(* Message.fromAnthropicMessage and toAnthropicMessageParam                *)
(***************************************************************************)
MaxTextLen == 3

\* A text is a sequence of tokens: the two markers, a colon, a word and a
\* paragraph break ("\n\n", the only white space).
USER_INPUT == "NEED_USER_INPUT"
FINAL_RESPONSE == "FINAL_RESPONSE"
Break == "\n\n"
Tokens == {USER_INPUT, FINAL_RESPONSE, ":", "w", Break}
Texts == UNION {[1..n -> Tokens] : n \in 0..MaxTextLen}

\* The text UserInputBlock.fromAnthropic puts before the request.
needInfo == "I need additional information to proceed."

\* The content blocks of a vendor message: text, tool_use, thinking, and one
\* of a type the adapter does not know.
WireBlock(type, text, id, name) == [type |-> type, text |-> text, id |-> id, name |-> name]
WireToolUse == WireBlock("tool_use", <<>>, "t1", "weather")
WireThinking == WireBlock("thinking", <<"w">>, "", "")
WireBlocks ==
    {WireBlock("text", t, "", "") : t \in Texts}
    \cup {WireToolUse, WireThinking, WireBlock("redacted_thinking", <<>>, "", "")}
\* The answers of the model: one block, a block behind a thinking block, or
\* a block before a tool_use block.
AnthropicMessages ==
    {[role |-> "assistant", content |-> c] :
        c \in {<<b>> : b \in WireBlocks}
               \cup {<<WireThinking, b>> : b \in WireBlocks}
               \cup {<<b, WireToolUse>> : b \in WireBlocks}}

NoMessage == [role |-> "", content |-> <<>>]

\* String.includes for a marker.
includes(text, marker) == \E k \in 1..Len(text) : text[k] = marker

\* String.trim: leading and trailing paragraph breaks go.
RECURSIVE trimStart(_)
trimStart(text) ==
    IF text # <<>> /\ Head(text) = Break THEN trimStart(Tail(text)) ELSE text
RECURSIVE trimEnd(_)
trimEnd(text) ==
    IF text # <<>> /\ text[Len(text)] = Break
    THEN trimEnd(SubSeq(text, 1, Len(text) - 1)) ELSE text
trim(text) == trimEnd(trimStart(text))

\* text.replace(/MARKER:?/g, ""): every marker goes, with a colon behind it.
RECURSIVE stripMarker(_, _)
stripMarker(text, marker) ==
    IF text = <<>> THEN <<>>
    ELSE IF Head(text) = marker
    THEN IF Len(text) > 1 /\ text[2] = ":"
         THEN stripMarker(Tail(Tail(text)), marker)
         ELSE stripMarker(Tail(text), marker)
    ELSE <<Head(text)>> \o stripMarker(Tail(text), marker)

\* The lazy group (.+?) with its lookahead (?=\n\n|\n$|$): from a text that
\* begins with no break, up to the first paragraph break or the end.
RECURSIVE upToBreak(_)
upToBreak(text) ==
    IF text = <<>> \/ Head(text) = Break THEN <<>>
    ELSE <<Head(text)>> \o upToBreak(Tail(text))

\* match[1].trim() of /MARKER:?\s*(.+?)(?=\n\n|\n$|$)/s on what follows the
\* first marker (rest is not empty): the colon and the white space are
\* skipped greedily, and given back when nothing would be left to capture.
captured(rest) ==
    LET r1 == IF Head(rest) = ":" /\ Len(rest) > 1 THEN Tail(rest) ELSE rest
        r2 == trimStart(r1)
    IN  IF r2 = <<>> THEN <<>>
        ELSE <<Head(r2)>> \o upToBreak(Tail(r2))

\* The body both sentinel parsers extract: the captured group when the
\* pattern matches (the marker is not the end of the text), else the text
\* without its markers, trimmed.
sentinelBody(text, marker) ==
    LET i == CHOOSE k \in 1..Len(text) :
                 text[k] = marker /\ \A l \in 1..(k - 1) : text[l] # marker
        rest == SubSeq(text, i + 1, Len(text))
    IN  IF rest # <<>> THEN captured(rest) ELSE trim(stripMarker(text, marker))

\* TextBlock.fromAnthropic: the constructor's sanitizeText leaves a text
\* shorter than 100 characters without "<" and "\" as it is.
TextBlock_fromAnthropic(content) == TextBlock(content.text, TRUE)

UserInputBlock_fromAnthropic(content) ==
    Block("NEED_USER_INPUT", "", "",
          <<needInfo>> \o sentinelBody(content.text, USER_INPUT), FALSE, TRUE)

FinalResponseBlock_fromAnthropic(content) ==
    Block("FINAL_RESPONSE", "", "", sentinelBody(content.text, FINAL_RESPONSE), FALSE, TRUE)

ToolUseBlock_fromAnthropic(content) == ToolUseBlock(content.id, content.name)

ThinkingBlock_fromAnthropic(content) ==
    Block("THINKING", "", "", content.text, FALSE, FALSE)

\* The types fromAnthropicMessage has a branch for.
KnownTypes == {"text", "tool_use", "thinking"}

\* A parser that looks for the final-response marker first.
fromAnthropicBlock_finalFirst(content) ==
    IF content.type = "text"
    THEN IF includes(content.text, FINAL_RESPONSE)
         THEN FinalResponseBlock_fromAnthropic(content)
         ELSE IF includes(content.text, USER_INPUT)
              THEN UserInputBlock_fromAnthropic(content)
              ELSE TextBlock_fromAnthropic(content)
    ELSE IF content.type = "tool_use" THEN ToolUseBlock_fromAnthropic(content)
    ELSE ThinkingBlock_fromAnthropic(content)

\* The branch fromAnthropicMessage takes for one content block.
fromAnthropicBlock(content) ==
    IF content.type = "text"
    THEN IF includes(content.text, USER_INPUT) THEN UserInputBlock_fromAnthropic(content)
         ELSE IF includes(content.text, FINAL_RESPONSE)
              THEN FinalResponseBlock_fromAnthropic(content)
              ELSE TextBlock_fromAnthropic(content)
    ELSE IF content.type = "tool_use" THEN ToolUseBlock_fromAnthropic(content)
    ELSE ThinkingBlock_fromAnthropic(content)

\* block.toAnthropic(): the sentinels and the Exception go out as vendor
\* text with their body.
toAnthropic(block) ==
    IF block.type = "TOOL_USE" THEN WireBlock("tool_use", <<>>, block.id, block.name)
    ELSE IF block.type = "THINKING" THEN WireBlock("thinking", block.text, "", "")
    ELSE IF block.type = "TOOL_RESULT" THEN WireBlock("tool_result", block.text, block.id, "")
    ELSE WireBlock("text", block.text, "", "")

\* Message.fromAnthropicMessage(message): throws on a block of unknown type.
fromAnthropicMessage(message) ==
    /\ wire' = message
    /\ IF \A k \in 1..Len(message.content) : message.content[k].type \in KnownTypes
       THEN /\ parsed' = Message(IF message.role = "assistant" THEN "assistant" ELSE "user",
                                 [k \in 1..Len(message.content) |->
                                     fromAnthropicBlock(message.content[k])])
            /\ msgOp' = "parsed"
       ELSE /\ msgOp' = "threw"
            /\ UNCHANGED parsed
    /\ UNCHANGED <<mainVars, regVars, storerVars>>

\* message.toAnthropicMessageParam() on the message parsed last.
toAnthropicMessageParam ==
    /\ msgOp = "parsed"
    /\ wire' = [role |-> IF parsed.role = "assistant" THEN "assistant" ELSE "user",
                content |-> [k \in 1..Len(parsed.content) |-> toAnthropic(parsed.content[k])]]
    /\ msgOp' = "emitted"
    /\ UNCHANGED parsed
    /\ UNCHANGED <<mainVars, regVars, storerVars>>


(***************************************************************************)
(* Specifications                                                          *)
(***************************************************************************)
Init ==
    /\ availableTools = <<>>
    /\ toolServerInfo = [n \in ToolNames |-> NoInfo]
    /\ clientCache = <<>>
    /\ clientState = [c \in Clients |-> "none"]
    /\ disposals = [c \in Clients |-> 0]
    /\ disposeReason = [c \in Clients |-> "none"]
    /\ recency = <<>>
    /\ calls = [i \in CallIds |-> IdleCall]
    /\ last = NoLast
    /\ ops = 0
    /\ pc = "idle"
    /\ recursionDepth = 0
    /\ messages = <<>>
    /\ processedMessages = <<>>
    /\ newMessages = <<>>
    /\ chats = 0
    /\ budget = 0
    /\ chatTools = <<>>
    /\ tools = <<>>
    /\ servers = {}
    /\ stores = << <<>> >>
    /\ vectorStore = 1
    /\ regCalls = [i \in RegCallIds |-> IdleRegCall]
    /\ regLast = NoRegLast
    /\ regOps = 0
    /\ deletedSince = {}
    /\ addServerCall = NoAddServer
    /\ wire = NoMessage
    /\ parsed = NoMessage
    /\ msgOp = "none"
    /\ dynamoTable = [id \in ToolIds |-> 0]
    /\ redisKeys = [id \in ToolIds |-> 0]
    /\ getLast = NoGet

\* The steps of the calls in flight and of the pool's environment.
Steps ==
    \/ \E i \in CallIds : connectToServer_connected(i)
    \/ \E i \in CallIds : connectToServer_fails(i)
    \/ \E i \in CallIds, newTools \in AdvertisedLists : connectToServer_listed(i, newTools)
    \/ \E i \in CallIds : ensureClientConnection_connected(i)
    \/ \E i \in CallIds : executeTool_fails(i)
    \/ \E i \in CallIds, isError \in BOOLEAN : executeTool_called(i, isError)
    \/ \E i \in CallIds, response \in QueryToolsResponses :
           executeTool_registry(i, response)
    \/ \E c \in Clients, how \in {"closed"} : closeSettles(c, how)
    \/ \E c \in Clients : Tick(c)

\* The ToolStore under calls from outside: any calls, at most MaxCalls in flight.
PoolNext ==
    \/ \E i \in CallIds, opts \in Servers : connectToServer(i, opts.url, opts.type)
    \/ \E i \in CallIds, name \in ToolNames, id \in {"t1"} :
           executeTool(i, name, id)
    \/ \E origins \in QueryResults : registerTools(origins)
    \/ cleanup
    \/ Steps

SpecPool == Init /\ [][PoolNext]_vars

\* The program: main registers the start-up servers, then one turn of the
\* chat loop runs, then main cleans up.
Next ==
    \/ /\ pc = "idle"
       /\ ops < MaxStartup
       /\ \E i \in CallIds, opts \in Servers : connectToServer(i, opts.url, opts.type)
    \/ processQuery(MaxAgentBlocks)
    \/ \E role \in {"assistant", "user"}, content \in AgentAnswers(budget) :
           chat_returns(role, content)
    \/ chat_throws
    \/ walk_append
    \/ walk_toolUse
    \/ walk_sentinel
    \/ recurse
    \/ AntClient_cleanup
    \/ Steps

Spec == Init /\ [][Next]_vars

\* One turn of processQuery on a ToolStore that learns its tools from the
\* registry only, then cleanup.
TurnNext ==
    \/ processQuery(MaxTurnBlocks)
    \/ \E role \in {"assistant", "user"}, content \in AgentAnswers(budget) :
           chat_returns(role, content)
    \/ chat_throws
    \/ walk_append
    \/ walk_toolUse
    \/ walk_sentinel
    \/ recurse
    \/ AntClient_cleanup
    \/ ensureClientConnection_connected(LoopCall)
    \/ executeTool_fails(LoopCall)
    \/ \E isError \in BOOLEAN : executeTool_called(LoopCall, isError)
    \/ \E response \in QueryToolsResponses : executeTool_registry(LoopCall, response)
    \/ \E c \in Clients, how \in {"closed"} : closeSettles(c, how)
    \/ \E c \in Clients : Tick(c)

\* Every pending promise settles: Agent.chat and every tool call return or
\* throw, and the event loop runs every continuation.
TurnSpec == Init /\ [][TurnNext]_vars /\ WF_vars(TurnNext)

\* The registry server's catalogue under its callers: calls overlap at
\* their awaits, nothing serialises them.
RegNext ==
    \/ \E i \in RegCallIds, name \in RegNames, server \in RegServers : addTool(i, name, server)
    \/ \E i \in RegCallIds : addTool_indexed(i)
    \/ \E i \in RegCallIds : addTool_fails(i)
    \/ \E i \in RegCallIds, name \in RegNames : deleteTool(i, name)
    \/ \E i \in RegCallIds : deleteTool_rebuilt(i)
    \/ \E i \in RegCallIds : deleteTool_fails(i)
    \/ \E i \in RegCallIds, limit \in Limits : queryTools(i, limit)
    \/ \E i \in RegCallIds : queryTools_found(i)
    \/ \E i \in RegCallIds : queryTools_fails(i)
    \/ listTools

SpecRegistry == Init /\ [][RegNext]_vars

\* The vendor adapter: answers of the model are parsed, parsed messages are
\* emitted, and what was emitted comes back to the parser.
MsgNext ==
    \/ \E message \in AnthropicMessages : fromAnthropicMessage(message)
    \/ toAnthropicMessageParam
    \/ /\ msgOp = "emitted"
       /\ fromAnthropicMessage(wire)

SpecMessages == Init /\ [][MsgNext]_vars

\* The catalogue under addServer calls, one after the other.
AddServerNext ==
    \/ \E server \in RegServers : addServer(server)
    \/ addServer_fails
    \/ \E listed \in RegToolLists : addServer_listed(listed)
    \/ \E name \in RegNames : addServer_toolIndexed(name)
    \/ \E name \in RegNames : addServer_toolFails(name)
    \/ addServer_returns
    \/ addServer_throws

SpecAddServer == Init /\ [][AddServerNext]_vars

\* The two ToolStorers under upserts, deletes and batch reads.
StorerNext ==
    \/ \E id \in ToolIds, rev \in Revs : Dynamo_upsertTool(id, rev)
    \/ \E id \in ToolIds, rev \in Revs : Redis_upsertTool(id, rev)
    \/ \E id \in ToolIds : Dynamo_deleteTool(id)
    \/ \E id \in ToolIds : Redis_deleteTool(id)
    \/ \E ids \in IdLists : Dynamo_getToolsById(ids)
    \/ \E ids \in IdLists : Redis_getToolsById(ids)

SpecStorer == Init /\ [][StorerNext]_vars

(***************************************************************************)
(* Properties                                                              *)
(***************************************************************************)
Returned == pc \in {"returned", "cleaned"}

\* The places of the blocks of a conversation, in reading order.
Places(msgs) ==
    UNION {{<<m, b>> : b \in 1..Len(msgs[m].content)} : m \in 1..Len(msgs)}
BlockAt(msgs, p) == msgs[p[1]].content[p[2]]
Before(p, q) == p[1] < q[1] \/ (p[1] = q[1] /\ p[2] < q[2])

Matched(msgs, p) ==
    \E q \in Places(msgs) :
        /\ Before(q, p)
        /\ BlockAt(msgs, q).type = "TOOL_USE"
        /\ BlockAt(msgs, q).id = BlockAt(msgs, p).id

ListedStep(i) ==
    /\ calls[i].op = "connectToServer"
    /\ calls[i].pc = "listing"
    /\ calls'[i].op = "none"
    /\ last'.advertised # <<>>

SeqRange(q) == {q[j] : j \in 1..Len(q)}

\* The advertised names bound to another origin (url and type) than the
\* server of call i.
OtherOrigin(i, advertised) ==
    {n \in SeqRange(advertised) :
        /\ InfoHas(toolServerInfo, n)
        /\ \/ toolServerInfo[n].serverUrl # calls[i].url
           \/ toolServerInfo[n].serverType # calls[i].type}

\* C2: a connectToServer whose server advertises a name bound to another
\* origin raises an error listing every such name and leaves the Toolbox as it
\* was.
C2_ConflictRejected ==
    [][\A i \in CallIds :
          (ListedStep(i) /\ OtherOrigin(i, last'.advertised) # {}) =>
              /\ last'.outcome = "error"
              /\ last'.errNames = OtherOrigin(i, last'.advertised)
              /\ availableTools' = availableTools
              /\ toolServerInfo' = toolServerInfo]_vars

\* The step in which registerTools runs on `last'.advertised`: called directly,
\* or by executeTool after query-tools.
RegisterStep ==
    \/ /\ ops' = ops + 1
       /\ calls' = calls
       /\ last'.op = "registerTools"
    \/ \E i \in CallIds :
          /\ calls[i].op = "executeTool"
          /\ calls[i].pc = "registry"
          /\ calls[i].name = "query-tools"
          /\ calls'[i].op = "none"
          /\ last'.outcome = "ok"

\* The given origins whose name is bound to another origin.
Rebinding(origins) ==
    {j \in 1..Len(origins) :
        /\ InfoHas(toolServerInfo, origins[j].name)
        /\ \/ toolServerInfo[origins[j].name].serverUrl # origins[j].url
           \/ toolServerInfo[origins[j].name].serverType # origins[j].type}

\* C3: registerTools given a name already registered from another origin
\* leaves the Toolbox unchanged; no name is rebound to another server.
C3_RegisterRejected ==
    [][(RegisterStep /\ Rebinding(last'.advertised) # {}) =>
          /\ availableTools' = availableTools
          /\ toolServerInfo' = toolServerInfo]_vars

\* C4: an executeTool for a registry tool name waits for the registry and is
\* never forwarded: it holds no upstream client and never connects or calls.
C4_RegistryWins ==
    \A i \in CallIds :
        (calls[i].op = "executeTool" /\ calls[i].name \in Tools) =>
            /\ calls[i].pc = "registry"
            /\ calls[i].client = NoClient

\* A registry tool name is executed while an upstream tool of that name is
\* registered.
C4_Witness ==
    \E i \in CallIds :
        /\ calls[i].op = "executeTool"
        /\ calls[i].name = "query-tools"
        /\ calls[i].pc = "registry"
        /\ InfoHas(toolServerInfo, "query-tools")

\* C5: acquisitions of a client for one key coalesce: at no time are two calls
\* waiting for the connector on the same key.
C5_SingleFlight ==
    \A i, j \in CallIds :
        (/\ i # j
         /\ calls[i].pc = "connecting"
         /\ calls[j].pc = "connecting") =>
            cacheKey(calls[i].url, calls[i].type) # cacheKey(calls[j].url, calls[j].type)

\* C6: the pool never holds more clients than its configured maximum.
C6_PoolBounded == Len(clientCache) <= maxConnections

\* The pool is full after an eviction.
C6_Witness ==
    /\ Len(clientCache) = maxConnections
    /\ \E c \in Clients : disposeReason[c] = "evict"

\* C7 (as stated): once a client has been evicted for a new one, its close has
\* completed.
C7_ClosedBeforeReuse ==
    \A c \in Clients : disposeReason[c] = "evict" => clientState[c] = "closed"

\* C7 (amended): once a client has been evicted for a new one, its close has
\* been called (it may not have completed) and it is no longer in the pool.
C7_CloseCalledBeforeReuse ==
    \A c \in Clients :
        disposeReason[c] = "evict" =>
            /\ clientState[c] \in {"closing", "closed"}
            /\ c \notin CachedClients

\* An evicted client is still closing while the pool is full again.
C7_Witness ==
    /\ Len(clientCache) = maxConnections
    /\ \E c \in Clients : disposeReason[c] = "evict" /\ clientState[c] = "closing"

\* C8: the dispose hook has run exactly once on every client that has left the
\* pool, and never on one that is in it; a client that left is not left open.
C8_DisposedOnce ==
    \A c \in Clients :
        /\ disposals[c] <= 1
        /\ c \in CachedClients => (disposals[c] = 0 /\ clientState[c] = "open")
        /\ (clientState[c] # "none" /\ c \notin CachedClients) =>
               (disposals[c] = 1 /\ clientState[c] # "open")

\* Clients have left the pool in three different ways.
C8_Witness ==
    Cardinality({disposeReason[c] : c \in Clients} \ {"none"}) >= 3

\* C9: when cleanup() has resolved, the close of every client it removed from
\* the pool has completed.
C9_CleanupAwaitsCloses ==
    last.op = "cleanup" =>
        \A c \in last.cleared : clientState[c] \in {"closed"}

\* C10: a turn that reaches the depth cap returns a conversation that holds a
\* Text block with the depth diagnostic.
C10_DepthDiagnostic ==
    (Returned /\ recursionDepth >= MAX_RECURSION_DEPTH) =>
        \E p \in Places(messages) :
            /\ BlockAt(messages, p).type = "TEXT"
            /\ BlockAt(messages, p).text = depthMessage

InTurn == pc \in {"chat", "walk", "tool"}

\* C11: a turn of processQuery ends; all along the recursion depth is within
\* 0..MAX_RECURSION_DEPTH and Agent.chat has been called at most
\* MAX_RECURSION_DEPTH times.
C11_TurnTerminates ==
    /\ [](recursionDepth \in 0..MAX_RECURSION_DEPTH /\ chats <= MAX_RECURSION_DEPTH)
    /\ (InTurn ~> Returned)

\* A turn that ended at the cap after MAX_RECURSION_DEPTH calls of Agent.chat.
C11_Witness ==
    /\ pc = "returned"
    /\ recursionDepth = MAX_RECURSION_DEPTH
    /\ chats = MAX_RECURSION_DEPTH

Sentinels == {"NEED_USER_INPUT", "FINAL_RESPONSE"}

\* The walk stands before a UserInput or FinalResponse block.
AtSentinel ==
    /\ pc = "walk"
    /\ newMessages # <<>>
    /\ Head(newMessages).type \in Sentinels

\* C12: the step of the walk on a UserInput or FinalResponse block appends the
\* block to the scratch, flushes the scratch and ends the turn; once the turn
\* has ended no block is processed, no tool is executed and Agent.chat is not
\* called.
C12_SentinelEndsTurn ==
    [][/\ (AtSentinel /\ loopVars' # loopVars) =>
              /\ pc' = "returned"
              /\ messages' = Append(messages,
                     Message("assistant", Append(processedMessages, Head(newMessages))))
              /\ chats' = chats
              /\ calls'[LoopCall] = IdleCall
       /\ Returned =>
              /\ Returned'
              /\ messages' = messages
              /\ newMessages' = newMessages
              /\ chats' = chats
              /\ calls'[LoopCall] = IdleCall]_vars

\* The turn has ended on a sentinel that a ToolUse block followed.
C12_Witness ==
    /\ pc = "returned"
    /\ newMessages # <<>>
    /\ Head(newMessages).type = "TOOL_USE"
    /\ LET c == messages[Len(messages)].content IN
          c # <<>> /\ c[Len(c)].type \in Sentinels

\* The conversation with the scratch message behind it.
WithScratch == Append(messages, Message("assistant", processedMessages))

\* The ToolUse block at p has been dealt with: its result is the user message
\* right behind its message, or its failure is the Exception block behind it.
Settled(conv, p) ==
    LET c == conv[p[1]].content IN
    \/ /\ p[2] < Len(c)
       /\ c[p[2] + 1].type = "EXCEPTION"
    \/ /\ p[2] = Len(c)
       /\ p[1] < Len(conv)
       /\ conv[p[1] + 1].role = "user"
       /\ conv[p[1] + 1].content[1].type = "TOOL_RESULT"
       /\ conv[p[1] + 1].content[1].id = c[p[2]].id

\* The ToolUse block whose executeTool is awaited: the last of the scratch.
InExecution(p) ==
    /\ pc = "tool"
    /\ p = <<Len(messages) + 1, Len(processedMessages)>>

LoopToolFails(id) ==
    \/ /\ calls[LoopCall].op = "executeTool"
       /\ calls[LoopCall].id = id
       /\ calls'[LoopCall].op = "none"
       /\ last'.outcome = "error"
    \/ /\ pc = "walk"
       /\ newMessages # <<>>
       /\ Head(newMessages).type = "TOOL_USE"
       /\ Head(newMessages).id = id
       /\ ThrowsAtEntry(Head(newMessages).name)
       /\ newMessages' # newMessages

\* C14: when a tool call of the loop fails, the conversation receives a
\* ToolResult block with isError true and the id of the failing ToolUse.
C14_FailureGivesErrorResult ==
    [][\A id \in ToolUseIds :
          LoopToolFails(id) =>
              /\ messages' # <<>>
              /\ LET r == messages'[Len(messages')] IN
                    /\ r.role = "user"
                    /\ r.content[1].type = "TOOL_RESULT"
                    /\ r.content[1].id = id
                    /\ r.content[1].isError]_vars

\* The step of an executeTool call for a name that is neither a registry tool
\* nor a registered tool.
UnknownToolStep ==
    /\ ops' = ops + 1
    /\ calls' = calls
    /\ last'.op = "executeTool"
    /\ \E name \in ToolNames : ThrowsAtEntry(name)

\* C15: executeTool for an unknown tool name does not raise: it returns a
\* result.
C15_UnknownToolReturns ==
    [][UnknownToolStep => last'.outcome = "ok"]_vars

\* C16: when Agent.chat does not return an answer, processQuery returns the
\* conversation with one system message holding an Exception block as its
\* last message; afterwards no tool is executed and Agent.chat is not called.
C16_ChatErrorReturned ==
    [][/\ (pc = "chat" /\ pc' \notin {"chat", "walk"}) =>
              /\ pc' = "returned"
              /\ Len(messages') = Len(messages) + 1
              /\ SubSeq(messages', 1, Len(messages)) = messages
              /\ messages'[Len(messages')].role = "system"
              /\ Len(messages'[Len(messages')].content) = 1
              /\ messages'[Len(messages')].content[1].type = "EXCEPTION"
              /\ \A m \in 1..Len(messages) : messages[m].role # "system"
       /\ (pc = "returned" /\ messages[Len(messages)].role = "system") =>
              /\ pc' \in {"returned", "cleaned"}
              /\ chats' = chats
              /\ calls'[LoopCall] = IdleCall]_vars

\* Agent.chat raised at a deeper level, after a tool result had been gathered.
C16_Witness ==
    /\ pc = "returned"
    /\ recursionDepth > 0
    /\ messages[Len(messages)].role = "system"
    /\ \E m \in 1..Len(messages) :
          messages[m].role = "user" /\ messages[m].content[1].type = "TOOL_RESULT"

\* The step in which the loop's query-tools call succeeds.
QueryToolsStep ==
    /\ calls[LoopCall].op = "executeTool"
    /\ calls[LoopCall].pc = "registry"
    /\ calls[LoopCall].name = "query-tools"
    /\ calls'[LoopCall].op = "none"
    /\ last'.outcome = "ok"

\* The tools that a query-tools result in the conversation tells of have been
\* handed to the Agent with the call in progress.
ToolsHanded ==
    pc = "chat" =>
        \A q \in QueryResults, m \in 1..Len(messages) :
            (/\ messages[m].role = "user"
             /\ messages[m].content[1].type = "TOOL_RESULT"
             /\ messages[m].content[1].text = summary(q)) =>
                \A j \in 1..Len(q) : q[j].name \in SeqRange(chatTools)

DirectRegisterStep ==
    /\ ops' = ops + 1
    /\ last'.op = "registerTools"
    /\ (last.op # "registerTools" \/ toolVars' # toolVars)

\* The step in which call i enters executeTool for an upstream tool.
UpstreamEntry(i) ==
    /\ calls[i].op = "none"
    /\ calls'[i].op = "executeTool"
    /\ calls'[i].pc # "registry"

\* C18: registerTools leaves the pool alone and starts no connection; a
\* client is created only for a call that waits for the connector; an
\* executeTool whose server has a live client in the pool uses that client
\* and does not connect.
C18_LazyConnection ==
    [][/\ DirectRegisterStep => (UNCHANGED poolVars /\ calls' = calls)
       /\ \A c \in Clients :
              (clientState[c] = "none" /\ clientState'[c] # "none") =>
                  \E i \in CallIds : calls[i].pc = "connecting" /\ calls'[i].client = c
       /\ \A i \in CallIds :
              UpstreamEntry(i) =>
                  LET k == IndexOfKey(clientCache,
                               cacheKey(calls'[i].url, calls'[i].type)) IN
                  IF k # 0 /\ ~isStale(clientCache[k])
                  THEN /\ calls'[i].pc = "calling"
                       /\ calls'[i].client = clientCache[k].client
                       /\ clientState' = clientState
                  ELSE calls'[i].pc = "connecting"]_vars

\* A second executeTool runs on the one client that the first one opened.
C18_Witness ==
    /\ ops = 3
    /\ last.op = "executeTool"
    /\ last.outcome = "ok"
    /\ clientState = [c \in Clients |-> IF c = 1 THEN "open" ELSE "none"]
    /\ \E i \in CallIds :
          /\ calls[i].op = "executeTool"
          /\ calls[i].pc = "calling"
          /\ calls[i].client = 1

\* A queryTools call completes with a result.
QueryFoundStep(i) ==
    /\ regCalls[i].op = "queryTools"
    /\ regCalls'[i].op = "none"
    /\ regLast'.outcome = "ok"

\* C19: after deleteTool(n) has returned true, no queryTools call made later
\* returns an entry named n, until a tool named n is added again.
C19_DeletedNotReturned ==
    [][\A i \in RegCallIds :
          QueryFoundStep(i) =>
              \A k \in 1..Len(regLast'.result) :
                  regLast'.result[k].name \notin regCalls[i].since]_vars

\* C20: addTool is an upsert on (server, tool name): the similarity index
\* holds at most one document for a pair, and no queryTools result holds the
\* same (server, tool name) twice.
C20_AddToolUpserts ==
    /\ \A g \in 1..Len(stores) : \A k, l \in 1..Len(stores[g]) :
           stores[g][k] = stores[g][l] => k = l
    /\ regLast.op = "queryTools" =>
           \A k, l \in 1..Len(regLast.result) :
               regLast.result[k] = regLast.result[l] => k = l

\* An addTool call is made (its part before the first await runs).
AddToolStep(i) ==
    /\ regCalls[i].op = "none"
    /\ regCalls'[i].op = "addTool"

\* C21: the catalogue is keyed by (server.id, tool.name): an addTool leaves
\* every entry of another (server, name) pair in the catalogue, so that
\* listTools still returns it; a tool named n from server B does not
\* overwrite the tool named n from server A.
C21_CompoundKey ==
    [][\A i \in RegCallIds :
          AddToolStep(i) =>
              \A k \in 1..Len(tools) :
                  Document(tools[k].name, tools[k].server) # regCalls'[i].docs[1]
                      => \E l \in 1..Len(tools') : tools'[l] = tools[k]]_vars

\* The turn has ended on a block of the given type.
EndedOn(type) ==
    /\ pc = "returned"
    /\ messages # <<>>
    /\ LET c == messages[Len(messages)].content IN
          c # <<>> /\ c[Len(c)].type = type

\* C22: what the REPL prints for a turn that ended with a UserInput sentinel
\* contains the UserInput request (as it contains the response of a turn that
\* ended with a FinalResponse).
C22_SentinelPrinted ==
    /\ EndedOn("NEED_USER_INPUT") =>
           \E k \in 1..Len(userResponse(messages)) :
               userResponse(messages)[k] = UserInputBlock.text
    /\ EndedOn("FINAL_RESPONSE") =>
           \E k \in 1..Len(userResponse(messages)) :
               userResponse(messages)[k] = FinalResponseBlock.text

\* The blocks of the conversation and of the scratch message.
AllBlocks == {BlockAt(WithScratch, p) : p \in Places(WithScratch)}

\* A ToolUse of `weather` has been taken up by the loop.
WeatherInvoked == \E b \in AllBlocks : b.type = "TOOL_USE" /\ b.name = "weather"

\* The turn of the scenario has ended: query-tools found `weather`, the
\* call of `weather` was answered by its server, no call of the turn failed
\* and the Agent gave its final response.
ScenarioEnded ==
    /\ EndedOn("FINAL_RESPONSE")
    /\ \E b \in AllBlocks :
          b.type = "TOOL_RESULT" /\ b.text = "successfully queried and added weather"
    /\ \E b \in AllBlocks : b.type = "TOOL_RESULT" /\ b.text = "result"
    /\ \A b \in AllBlocks : b.type # "EXCEPTION"

\* No client exists before `weather` is invoked, and the scenario leaves
\* `weather` in the Toolbox.
LazyAndRegistered ==
    /\ ~WeatherInvoked =>
           /\ clientCache = <<>>
           /\ \A c \in Clients : clientState[c] = "none"
    /\ ScenarioEnded => "weather" \in NamesOf(availableTools)

\* C23 (as stated): the scenario ends with two clients in the pool, the
\* registry's and the weather server's.
C23_PoolHoldsTwo ==
    /\ LazyAndRegistered
    /\ ScenarioEnded => Len(clientCache) = 2

\* C23 (amended): the scenario ends with `weather` in the Toolbox and exactly
\* one client in the pool, the weather server's (the registry's client is
\* held by the RegistryClient, outside the pool); no client for the weather
\* server exists before `weather` is invoked.
C23_PoolHoldsWeatherOnly ==
    /\ LazyAndRegistered
    /\ ScenarioEnded =>
           /\ Len(clientCache) = 1
           /\ clientCache[1].key = cacheKey("u2", "sse")
           /\ clientState[clientCache[1].client] = "open"

\* The scenario has run to its end.
C23_Witness == ScenarioEnded

\* C24: the names of availableTools are the names of toolServerInfo, so that
\* executeTool on a registered tool never fails for lack of server
\* information.
C24_ToolsHaveServers ==
    /\ NamesOf(availableTools) = InfoNames(toolServerInfo)
    /\ \A n \in NamesOf(availableTools) : ~ThrowsAtEntry(n)

\* Both ways of registering have filled the Toolbox: registerTools has just
\* added to what a connected server advertised.
C24_Witness ==
    /\ last.op = "registerTools"
    /\ Len(availableTools) = 2
    /\ \E n \in NamesOf(availableTools) : toolServerInfo[n].serverUrl = "u1"

\* The variant fromAnthropicMessage is to give a vendor block.
VariantOf(content) ==
    IF content.type = "tool_use" THEN "TOOL_USE"
    ELSE IF content.type = "thinking" THEN "THINKING"
    ELSE IF includes(content.text, USER_INPUT) THEN "NEED_USER_INPUT"
    ELSE IF includes(content.text, FINAL_RESPONSE) THEN "FINAL_RESPONSE"
    ELSE "TEXT"

\* C25: fromAnthropicMessage gives one block per vendor block: UserInput for
\* a text that contains NEED_USER_INPUT, FinalResponse for a text that
\* contains FINAL_RESPONSE, Text for any other text, ToolUse for tool_use and
\* Thinking for thinking; a text with both markers gives one sentinel block.
C25_VendorBlocksClassified ==
    msgOp = "parsed" =>
        /\ Len(parsed.content) = Len(wire.content)
        /\ \A k \in 1..Len(wire.content) :
              parsed.content[k].type = VariantOf(wire.content[k])

\* A text with both markers has been parsed, the final-response marker first.
C25_Witness ==
    /\ msgOp = "parsed"
    /\ \E k \in 1..Len(wire.content) :
          /\ wire.content[k].type = "text"
          /\ Len(wire.content[k].text) > 1
          /\ wire.content[k].text[1] = FINAL_RESPONSE
          /\ includes(wire.content[k].text, USER_INPUT)

\* What was emitted is parsed again.
ReparseStep ==
    /\ msgOp = "emitted"
    /\ msgOp' = "parsed"
    /\ wire' = wire

\* C26: a UserInput or FinalResponse block that is emitted to vendor text and
\* parsed again comes back as a block of the same variant with the same body.
C26_SentinelIdempotent ==
    [][ReparseStep =>
          \A k \in 1..Len(parsed.content) :
              parsed.content[k].type \in Sentinels =>
                  /\ parsed'.content[k].type = parsed.content[k].type
                  /\ parsed'.content[k].text = parsed.content[k].text]_vars

\* Call i asks the pool for the client of its server (connectToServer or
\* executeTool on an upstream tool begins).
AcquireStep(i) ==
    /\ calls[i].op = "none"
    /\ calls'[i].op \in {"connectToServer", "executeTool"}
    /\ calls'[i].pc # "registry"

\* The connector has answered call i.
ConnectedStep(i) ==
    /\ calls[i].pc = "connecting"
    /\ calls'[i].pc \in {"listing", "calling"}

\* C27: an acquisition that finds the entry of its key older than the ttl
\* does not get the expired client: the key is absent, the expired client's
\* close is called and the call goes to the connector; the client the
\* connector creates is a new one and is stored under the key.
C27_ExpiredNotReturned ==
    [][\A i \in CallIds :
          /\ AcquireStep(i) =>
                LET key == cacheKey(calls'[i].url, calls'[i].type)
                    k == IndexOfKey(clientCache, key) IN
                (k # 0 /\ isStale(clientCache[k])) =>
                    /\ calls'[i].pc = "connecting"
                    /\ calls'[i].client = NoClient
                    /\ IndexOfKey(clientCache', key) = 0
                    /\ clientState'[clientCache[k].client] = "closing"
                    /\ disposeReason'[clientCache[k].client] = "expire"
          /\ ConnectedStep(i) =>
                LET key == cacheKey(calls[i].url, calls[i].type)
                    k == IndexOfKey(clientCache', key) IN
                /\ clientState[calls'[i].client] = "none"
                /\ k # 0
                /\ clientCache'[k].client = calls'[i].client
                /\ ~isStale(clientCache'[k])]_vars

\* Two acquisitions of one key, the ttl elapsed in between: the expired
\* client has been disposed and a new one is in the pool.
C27_Witness ==
    /\ ops = 2
    /\ \A i \in CallIds : calls[i].op = "none"
    /\ Len(clientCache) = 1
    /\ \E c \in Clients : disposeReason[c] = "expire" /\ c \notin CachedClients

\* Client x is evicted to make room.
EvictStep(x) ==
    /\ disposeReason[x] # "evict"
    /\ disposeReason'[x] = "evict"

\* C28: a client is evicted only when the pool is full and a client for a
\* key the pool does not hold is inserted, and the evicted client is the
\* least recently used one, insertions and successful lookups counting as
\* use.
C28_EvictsLeastRecentlyUsed ==
    [][\A x \in Clients :
          EvictStep(x) =>
              /\ Len(clientCache) = maxConnections
              /\ x = Head(recency)
              /\ x \notin CachedClients'
              /\ \E i \in CallIds :
                    /\ ConnectedStep(i)
                    /\ IndexOfKey(clientCache, cacheKey(calls[i].url, calls[i].type)) = 0
                    /\ clientCache'[1].client = calls'[i].client]_vars

\* Acquiring A, B, A, C has evicted B's client: the first client, looked up
\* again, is still in the pool beside the third.
C28_Witness ==
    /\ disposeReason[2] = "evict"
    /\ CachedClients = {1, 3}

\* The connector fails call i: the call ends while it waits for its client.
ConnectorFailsStep(i) ==
    /\ calls[i].pc = "connecting"
    /\ calls'[i].op = "none"

\* C29: when the connector fails, the call raises and the pool is as it was,
\* so the failed call has put nothing under the key; an acquisition for a key
\* the pool does not hold goes to the connector.
C29_ConnectorFailurePropagates ==
    [][\A i \in CallIds :
          /\ ConnectorFailsStep(i) =>
                /\ last'.outcome = "error"
                /\ last'.op = calls[i].op
                /\ UNCHANGED poolVars
          /\ AcquireStep(i) =>
                (IndexOfKey(clientCache, cacheKey(calls'[i].url, calls'[i].type)) = 0
                    => calls'[i].pc = "connecting")]_vars

\* After a connector failure the key is asked for again: the pool is still
\* empty and the new call waits for the connector.
C29_Witness ==
    /\ ops = 2
    /\ last.op = "connectToServer"
    /\ last.outcome = "error"
    /\ clientCache = <<>>
    /\ \A c \in Clients : clientState[c] = "none"
    /\ \E i \in CallIds :
          /\ calls[i].pc = "connecting"
          /\ calls[i].url = last.url
          /\ calls[i].type = last.type

\* The tool call of call i fails on its client (callTool rejects).
CallToolFailsStep(i) ==
    /\ calls[i].op = "executeTool"
    /\ calls[i].pc = "calling"
    /\ calls'[i].op = "none"
    /\ last'.outcome = "error"

\* C30: a client whose tool call failed has left the pool and its close has
\* been called.
C30_FailedClientDiscarded ==
    [][\A i \in CallIds :
          CallToolFailsStep(i) =>
              /\ calls[i].client \notin CachedClients'
              /\ clientState'[calls[i].client] \in {"closing", "closed"}]_vars

\* The JSON-tagged items of a response's content.
JsonItems(content) == {k \in 1..Len(content) : content[k].isJson}

\* C31: the response of a meta-tool holds one JSON item and, second, an item
\* for a human that is not JSON; after a failed registry operation the JSON
\* item is null and the second item is the error message.
C31_ResponseShape ==
    regLast.op \in {"queryTools", "listTools"} =>
        /\ Len(regLast.response) = 2
        /\ JsonItems(regLast.response) = {1}
        /\ regLast.response[2].text.kind = "words"
        /\ regLast.outcome = "error" =>
              /\ regLast.response[1].text.kind = "null"
              /\ regLast.response[2].text.words \in
                    {"Error querying tools", "Error listing tools"}

\* What a storer holds under an id: the ToolWithServerInfo upserted last, or
\* null.
StoredUnder(storer, id) ==
    LET held == IF storer = "dynamo" THEN dynamoTable[id] ELSE redisKeys[id]
    IN  IF held = 0 THEN Null ELSE ToolWithServerInfo(id, held)

\* C32: getToolsById(ids) returns as many entries as ids, entry k being what
\* is stored under ids[k] or null, for both storers and for repeated ids.
C32_BatchGetInOrder ==
    [][getLast' # getLast =>
          /\ getLast'.outcome = "ok"
          /\ Len(getLast'.result) = Len(getLast'.ids)
          /\ \A k \in 1..Len(getLast'.ids) :
                getLast'.result[k] = StoredUnder(getLast'.storer, getLast'.ids[k])]_vars

\* The names the store in use holds a document of, for a server.
Indexed(server) ==
    {stores[vectorStore][k].name : k \in
        {j \in 1..Len(stores[vectorStore]) : stores[vectorStore][j].serverId = getId(server)}}

\* The names the tool map holds under a server.
Mapped(server) ==
    {tools[k].name : k \in {j \in 1..Len(tools) : getId(tools[j].server) = getId(server)}}

\* C33: addServer has its server recorded while it lists, and when an
\* addTool fails addServer throws with the server still recorded and the
\* catalogue holding all of the server's tools or none of them.
C33_AddServerAtomic ==
    /\ addServerCall.pc \in {"connecting", "adding"} => addServerCall.server \in servers
    /\ (addServerCall.pc = "threw" /\ addServerCall.failed) =>
          LET all == {addServerCall.listed[k] : k \in 1..Len(addServerCall.listed)}
          IN  /\ regLast.op = "addServer"
              /\ regLast.outcome = "error"
              /\ addServerCall.server \in servers
              /\ \/ Mapped(addServerCall.server) = all /\ Indexed(addServerCall.server) = all
                 \/ Mapped(addServerCall.server) = {} /\ Indexed(addServerCall.server) = {}

\* The server the tool map holds a name under.
ServerOf(map, name) == (CHOOSE e \in {map[k] : k \in 1..Len(map)} : e.name = name).server

\* C34: queryTools returns at most `limit` records, at most 10 when the
\* limit is omitted, each with the server the tool map holds the tool under.
C34_AtMostLimit ==
    [][\A i \in RegCallIds :
          QueryFoundStep(i) =>
              /\ Len(regLast'.result) <=
                    (IF regCalls[i].asked = Omitted THEN 10 ELSE regCalls[i].asked)
              /\ \A k \in 1..Len(regLast'.result) :
                    /\ MapHas(tools, regLast'.result[k].name)
                    /\ ServerOf(tools, regLast'.result[k].name) = regLast'.result[k].server]_vars

\* The advertised names recorded under the url of call i with another
\* transport.
OtherTransport(i, advertised) ==
    {n \in SeqRange(advertised) :
        /\ InfoHas(toolServerInfo, n)
        /\ toolServerInfo[n].serverUrl = calls[i].url
        /\ toolServerInfo[n].serverType # calls[i].type}

\* C35: a connectToServer that advertises a name recorded under the same url
\* with another transport raises a conflict; an executeTool asks the pool
\* for the key url::transport of the server recorded for its tool.
C35_IdentityIsUrlAndTransport ==
    [][\A i \in CallIds :
          /\ (ListedStep(i) /\ OtherTransport(i, last'.advertised) # {}) =>
                /\ last'.outcome = "error"
                /\ OtherTransport(i, last'.advertised) \subseteq last'.errNames
          /\ UpstreamEntry(i) =>
                cacheKey(calls'[i].url, calls'[i].type) =
                    cacheKey(toolServerInfo[calls'[i].name].serverUrl,
                             toolServerInfo[calls'[i].name].serverType)]_vars

\* The messages a turn may put into the conversation: the user's query when
\* the turn begins, a flushed scratch message, a user message holding one
\* ToolResult, a system message holding one Exception.
TurnMessage(m) ==
    \/ pc = "idle" /\ m = Message("user", <<TextBlock("query", TRUE)>>)
    \/ m.role = "assistant"
    \/ m.role = "user" /\ Len(m.content) = 1 /\ m.content[1].type = "TOOL_RESULT"
    \/ m.role = "system" /\ Len(m.content) = 1 /\ m.content[1].type = "EXCEPTION"

\* C36: every message a step of the turn appends to the conversation is one
\* of those; a re-entry at depth > 0 appends nothing before Agent.chat.
C36_OnlyTurnMessages ==
    [][\A k \in (Len(messages) + 1)..Len(messages') : TurnMessage(messages'[k])]_vars

\* C40: the turn begins with the conversation loaded from memory (empty:
\* nothing is ever saved) followed by the user's query, and every later step
\* keeps the messages the conversation already holds, in their places and
\* unaltered, adding only behind them.
C40_AppendOnly ==
    [][/\ (pc = "idle" /\ pc' # "idle") =>
              messages' = <<Message("user", <<TextBlock("query", TRUE)>>)>>
       /\ pc # "idle" =>
              /\ Len(messages') >= Len(messages)
              /\ SubSeq(messages', 1, Len(messages)) = messages]_vars

\* A turn that flushed, recursed and returned: the returned conversation
\* begins with the query and holds what was flushed before the recursion.
C40_Witness ==
    /\ pc = "returned"
    /\ recursionDepth >= 1
    /\ Len(messages) >= 4
    /\ messages[1] = Message("user", <<TextBlock("query", TRUE)>>)
    /\ messages[2].role = "assistant"

\* The names the similarity index in use holds a document of.
IndexNames(g, past) == {past[g][k].name : k \in 1..Len(past[g])}

\* Call i returns and leaves no call in flight.
LastReturns(i) ==
    /\ regCalls[i].op # "none"
    /\ \A j \in RegCallIds : regCalls'[j].op = "none"

\* After the step: b is in the tool map and in the index, a is in neither.
Catalogued(a, b) ==
    /\ MapHas(tools', b)
    /\ b \in IndexNames(vectorStore', stores')
    /\ ~MapHas(tools', a)
    /\ a \notin IndexNames(vectorStore', stores')

\* C37: when a deleteTool(a) and an addTool(b, s), a # b, are the last two
\* calls to return, both with success, b is in the tool map and in the index
\* and a is in neither, however the two calls were interleaved.
C37_WritesExclusive ==
    [][\A i \in RegCallIds :
          /\ (/\ LastReturns(i)
              /\ regCalls[i].op = "deleteTool" /\ regLast'.outcome = "true"
              /\ regLast.op = "addTool" /\ regLast.outcome = "ok"
              /\ regLast.name # regCalls[i].name)
                => Catalogued(regCalls[i].name, regLast.name)
          /\ (/\ LastReturns(i)
              /\ regCalls[i].op = "addTool" /\ regLast'.outcome = "ok"
              /\ regLast.op = "deleteTool" /\ regLast.outcome = "true"
              /\ regLast.name # regCalls[i].name)
                => Catalogued(regLast.name, regCalls[i].name)]_vars

\* The registry's answer to query-tools tells a failure: its JSON item is
\* null, or it has none.
QueryFailed(content) ==
    \/ getJsonContent(content) = 0
    \/ content[getJsonContent(content)].text.kind = "null"

\* The query-tools call i gets the registry's answer.
QueryAnswered(i) ==
    /\ calls[i].op = "executeTool"
    /\ calls[i].pc = "registry"
    /\ calls[i].name = "query-tools"
    /\ calls'[i].op = "none"
    /\ last'.response # <<>>

\* C38: when the registry's query-tools failed, executeTool registers no tool,
\* leaves the Toolbox as it was and does not return a result that tells of a
\* successful query.
C38_FailedQueryNotSuccess ==
    [][\A i \in CallIds :
          (QueryAnswered(i) /\ QueryFailed(last'.response)) =>
              /\ UNCHANGED toolVars
              /\ last'.outcome # "ok"]_vars

\* C39: the chat loop does not run while a start-up registration is in
\* flight: once a turn has begun no connectToServer call is pending.
C39_StartupAwaited ==
    pc # "idle" => \A i \in CallIds : calls[i].op # "connectToServer"

====
